---- MODULE Spec2Model ----
(***************************************************************************)
(* OAuth2 Authorization-Code + PKCE login and KV-backed session store of   *)
(* the Banno Cloudflare plugin: auth.service.ts (PKCE state, token         *)
(* exchange, refresh), kv.service.ts (encrypted store), session.service.ts *)
(* (session records and user-session index), utils/auth.ts (callback       *)
(* orchestration) and the routes that call them.                           *)
(*                                                                         *)
(* The specifications share the variables:                                 *)
(*   Spec      whole request handlers, one at a time, backend never fails  *)
(*   SpecLong  the same over longer runs (token refresh, index expiry)     *)
(*   SpecFault the same with backend calls that can fail                   *)
(*   SpecApi   the SessionService methods called directly, one at a time   *)
(*   SpecKv    KVService instances with different secrets on one namespace *)
(*   SpecStore the SessionService methods over a backend whose calls fail  *)
(*   SpecRoute the routes, with callback requests of every shape           *)
(*   SpecRace  two requests interleaved at their awaits                    *)
(*   SpecLimit GET /auth/login behind the rate limiting middleware         *)
(*   SpecLogout GET /logout over a backend whose every call may fail       *)
(*   SpecConfig login and callback of a Worker with bindings missing       *)
(*   SpecWait  invocations at their awaits, calls that may never answer    *)
(*   SpecExpiry getSession on records at, before and after their expiry    *)
(*   SpecCookie callbacks that fail in every way, and the cookie           *)
(*   SpecTabs  two callbacks of one user interleaved at their awaits       *)
(*   SpecCreate createUserSession over a backend whose calls fail          *)
(*   SpecBurst the rate limiting middleware, requests in flight together   *)
(***************************************************************************)
EXTENDS Integers, Sequences, FiniteSets, TLC

\* ------------------------------------------------------------------ bounds
\* Spec: the handlers with a backend that never fails
MaxStates   == 2    \* PKCE state tokens issued by initiateAuth
MaxGrants   == 2    \* successful token responses of the provider
MaxTicks    == 1    \* clock advances
\* SpecLong: runs long enough for a refresh and for the index to expire
LMaxStates  == 2
LMaxGrants  == 3
LMaxTicks   == 2
\* SpecFault: the handlers with a backend that can fail
FMaxStates  == 1
FMaxGrants  == 2
FMaxTicks   == 1
MaxFaults   == 1    \* key-value backend calls that fail
\* SpecApi: the SessionService methods called directly; no time passes
MaxIds      == 2    \* session identifiers a caller passes
MaxCreates  == 2    \* createUserSession calls
\* SpecKv: KVService instances over one namespace
KMaxTicks   == 1
\* SpecRoute: the routes, requests of every shape
RMaxStates  == 1
RMaxGrants  == 1
\* SpecStore: SessionService methods over a backend that may fail
TMaxGrants  == 1    \* refreshes the provider grants
TMaxTicks   == 1
TMaxFaults  == 1    \* backend calls that fail
\* SpecCookie: callbacks that fail in every way
OMaxStates  == 2
OMaxGrants  == 2
OMaxFaults  == 1
\* SpecLimit: GET /auth/login behind the rate limiting middleware
NMaxStates  == 10
NMaxTicks   == 1
\* for SpecBurst: requests that arrive, requests in flight together, windows
\* that pass, failing backend calls
BMaxRequests == 11
BMaxInFlight == 2
BMaxTicks    == 1
BMaxFaults   == 1
\* SpecLogout: GET /logout over a backend whose every call may fail
XMaxStates  == 1
XMaxGrants  == 2
XMaxTicks   == 1
\* SpecConfig: the routes of a Worker with bindings missing
CMaxStates  == 2
CMaxGrants  == 2
\* the most backend and provider calls one handler makes: handleOAuthCallback
\* (get, delete, exchange, get, get, delete, put, put)
MaxCalls    == 8

Bounds(states, grants, ticks, nfaults) ==
  [states |-> states, grants |-> grants, ticks |-> ticks, faults |-> nfaults]
SpecBounds  == Bounds(MaxStates, MaxGrants, MaxTicks, 0)
LongBounds  == Bounds(LMaxStates, LMaxGrants, LMaxTicks, 0)
ApiBounds   == Bounds(0, 0, 0, 0)
KvBounds    == Bounds(0, 0, KMaxTicks, 0)
StoreBounds == Bounds(0, TMaxGrants, TMaxTicks, TMaxFaults)
RouteBounds == Bounds(RMaxStates, RMaxGrants, 0, 0)
FaultBounds == Bounds(FMaxStates, FMaxGrants, FMaxTicks, MaxFaults)

\* ------------------------------------------------------- values and sentinels
Users     == {"u1", "u2"}
CodeVerifier(n) == [kind |-> "verifier", n |-> n]   \* the fresh random verifier of login n
Secret    == "k1"                \* c.env.SESSION_ENC_SECRET
Secrets   == <<Secret>>          \* KVService.secrets of every store the app builds

NaN       == -1                  \* JS NaN (number + undefined * 1000)
JsonNull  == -2                  \* JSON null (JSON.stringify of NaN)
Undefined == -3                  \* an absent numeric field (expires_in)
NoSid     == 0                   \* null session identifier
NoSub     == "undecodable"       \* an id_token decodeJwtPayload throws on
NoState   == 0                   \* a state token initiateAuth never issued

Tok(kind, n) == [kind |-> kind, n |-> n]
NoTok        == [kind |-> "undefined", n |-> 0]    \* undefined token field
AT(n)        == Tok("access", n)
RT(n)        == Tok("refresh", n)

StateTtl         == 600                  \* seconds, initiateAuth
SessionTtl       == 60 * 60 * 24 * 30    \* seconds, createUserSession / updateSession
DefaultExpiresIn == 3600                 \* seconds, getSession / refreshTokens

\* An epoch-millisecond value is kept as whole seconds and the milliseconds
\* within the second (s * 1000 + ms), since 30 days of milliseconds exceed the
\* range of TLC's 32-bit integers. NaN in milliseconds is NaNMs.
Ms(s, ms) == [s |-> s, ms |-> ms]
NaNMs     == Ms(NaN, 0)
Epoch0    == Ms(1000, 250)               \* Date.now() when the model starts

\* the clock advances by half a session TTL: past the state TTL and past an
\* access token's life at once, and past the session TTL in two steps
TickSteps == {Ms(SessionTtl \div 2, 0)}
ExpiresInChoices == {Undefined, DefaultExpiresIn}

VARIABLES
  nowMs,      \* Date.now()
  authKV,     \* backend entries `auth_state:<state>`
  sessKV,     \* backend entries `session:<sessionId>`
  idxKV,      \* backend entries `user_session:<userId>`
  nextState,  \* state tokens issued so far
  nextSid,    \* session identifiers minted so far
  grants,     \* successful token responses so far (numbers the tokens)
  cookies,    \* session identifiers issued in a `__Secure-session_id` cookie
  issued,     \* history: state -> the codeVerifier initiateAuth stored under it
  exch,       \* history: state -> the code_verifiers of the exchange calls made for it
  deleted,    \* history: session identifiers whose record was deleted
  last,       \* observation: the last operation, its result and its calls
  prev,       \* observation: the operation before it
  faults,     \* backend failures so far
  ticks,      \* clock advances so far
  procs       \* SpecRace: the two in-flight requests

vars == <<nowMs, authKV, sessKV, idxKV, nextState, nextSid, grants, cookies,
          issued, exch, deleted, last, prev, faults, ticks, procs>>

NowSec == nowMs.s                \* Math.floor(Date.now() / 1000)

\* ------------------------------------------------------------ key-value backend
MapPut(m, k, e) == [x \in DOMAIN m \cup {k} |-> IF x = k THEN e ELSE m[x]]
MapDel(m, k)    == [x \in DOMAIN m \ {k} |-> m[x]]
\* the backend drops an entry once its `expiration` (epoch seconds) is reached
Expire(m, sec)  == [x \in {k \in DOMAIN m : m[k].exp > sec} |-> m[x]]

\* ------------------------------------------------------------------ KVService
\* JSON.stringify of the value: NaN becomes null
Json(v) ==
  IF "expiresAt" \in DOMAIN v /\ v.expiresAt = NaN
  THEN [v EXCEPT !.expiresAt = JsonNull] ELSE v

\* (variant: encrypts under the last configured secret)
Seal_LastSecret(secrets, v) ==
  IF Len(secrets) > 0 THEN [key |-> secrets[Len(secrets)], text |-> Json(v)]
  ELSE [key |-> "plain", text |-> Json(v)]

\* put: AES-GCM under secrets[0] when a secret is configured, else plaintext
Seal(secrets, v) ==
  IF Len(secrets) > 0 THEN [key |-> secrets[1], text |-> Json(v)]
  ELSE [key |-> "plain", text |-> Json(v)]

\* get: the first configured secret that decrypts; else the plaintext fallback
CanOpen(secrets, e) ==
  \/ e.key = "plain"
  \/ \E i \in 1..Len(secrets) : secrets[i] = e.key

\* What the namespace can hold that put did not write: values stored before
\* encryption was switched on, or by another program.
JNull       == [json |-> "null"]          \* the JSON text null
GarbageText == [json |-> "unparseable"]   \* a text JSON.parse rejects
EmptyText   == [json |-> "empty"]         \* the empty string
Plain(text) == [key |-> "plain", text |-> text]

\* JSON.parse(text) returns
Parses(text) == text \notin {GarbageText, EmptyText}
\* the value has the form iv:ciphertext and AES-GCM authenticates it under secret
Decrypts(secret, raw) == raw.key # "plain" /\ raw.key = secret

\* what get returns: a value, null, or an exception
Returned(v) == [threw |-> FALSE, null |-> v = JNull, val |-> v]
ReturnedNull == [threw |-> FALSE, null |-> TRUE, val |-> JNull]
Raised == [threw |-> TRUE, null |-> FALSE, val |-> JNull]
\* JSON.parse(value) of the raw stored string, null when it does not parse
ParsePlain(raw) ==
  IF raw.key = "plain" /\ Parses(raw.text) THEN Returned(raw.text) ELSE ReturnedNull

\* variant: only the primary secret is tried
Open_PrimaryOnly(secrets, raw) ==
  IF raw = Plain(EmptyText) THEN ReturnedNull
  ELSE IF Len(secrets) = 0 THEN ParsePlain(raw)
  ELSE IF Decrypts(secrets[1], raw) /\ Parses(raw.text) THEN Returned(raw.text)
  ELSE ParsePlain(raw)

\* variant: the plaintext fallback is not guarded by a try
Open_UnguardedFallback(secrets, raw) ==
  IF raw = Plain(EmptyText) THEN ReturnedNull
  ELSE IF Len(secrets) = 0 THEN ParsePlain(raw)
  ELSE IF \E i \in 1..Len(secrets) : Decrypts(secrets[i], raw) /\ Parses(raw.text)
  THEN Returned(raw.text)
  ELSE IF raw.key = "plain" /\ Parses(raw.text) THEN Returned(raw.text) ELSE Raised

\* get, after the backend read returned the raw value: null for an empty value;
\* without secrets the plaintext parse; else the first secret in list order
\* that decrypts to a text that parses; else the plaintext parse
Open(secrets, raw) ==
  IF raw = Plain(EmptyText) THEN ReturnedNull
  ELSE IF Len(secrets) = 0 THEN ParsePlain(raw)
  ELSE IF \E i \in 1..Len(secrets) : Decrypts(secrets[i], raw) /\ Parses(raw.text)
  THEN Returned(raw.text)
  ELSE ParsePlain(raw)

\* the constructor's `secret` argument: absent, a string, or a list
NoSecretArg    == [kind |-> "undefined", list |-> <<>>]
StringArg(str) == [kind |-> "string", list |-> <<str>>]
ListArg(list)  == [kind |-> "list", list |-> list]
NonEmpty(str)  == str # ""
\* variant: the check for a missing secret is left to the first use
KVService_Deferred(secret, requireSecret) ==
  [threw |-> FALSE, secrets |-> SelectSeq(secret.list, NonEmpty)]

\* new KVService(kv, secret, { requireSecret }); requireSecret is "unset",
\* "true" or "false"
KVService(secret, requireSecret) ==
  LET secrets == SelectSeq(secret.list, NonEmpty)
      require == requireSecret # "false"
  IN [threw |-> require /\ Len(secrets) = 0, secrets |-> secrets]

\* new SessionService(kv, kvEncryptionSecret, env): its KVService is built
\* with { requireSecret: true }
SessionService(kvEncryptionSecret) == KVService(kvEncryptionSecret, "true")

\* ------------------------------------------------ a handler's run: the world
\* A handler threads a world through its awaits: the three stores, the calls it
\* has made, the ordinals of the backend calls that fail and the pending
\* exception.
World(fail) ==
  [auth |-> authKV, sess |-> sessKV, idx |-> idxKV, grants |-> grants,
   exch |-> exch, deleted |-> deleted, calls |-> <<>>,
   fail |-> fail, err |-> "none"]

Fails(w)   == (Len(w.calls) + 1) \in w.fail
Caught(w)  == [w EXCEPT !.err = "none"]
Logged(w, op, ns, ok) == Append(w.calls, [op |-> op, ns |-> ns, ok |-> ok])

\* KVService.put
KvPut(w, ns, k, v, exp) ==
  IF Fails(w)
  THEN [w EXCEPT !.calls = Logged(w, "put", ns, FALSE), !.err = "StorageError"]
  ELSE [w EXCEPT ![ns] = MapPut(@, k, [val |-> Seal(Secrets, v), exp |-> exp]),
                 !.calls = Logged(w, "put", ns, TRUE)]

\* KVService.get: [w, found, val]
KvGet(w, ns, k) ==
  IF Fails(w)
  THEN [w |-> [w EXCEPT !.calls = Logged(w, "get", ns, FALSE), !.err = "StorageError"],
        found |-> FALSE, val |-> NoTok]
  ELSE LET w1 == [w EXCEPT !.calls = Logged(w, "get", ns, TRUE)] IN
       IF k \in DOMAIN w[ns] /\ ~Open(Secrets, w[ns][k].val).null
       THEN [w |-> w1, found |-> TRUE, val |-> Open(Secrets, w[ns][k].val).val]
       ELSE [w |-> w1, found |-> FALSE, val |-> NoTok]

\* KVService.delete
KvDelete(w, ns, k) ==
  IF Fails(w)
  THEN [w EXCEPT !.calls = Logged(w, "delete", ns, FALSE), !.err = "StorageError"]
  ELSE [w EXCEPT ![ns] = MapDel(@, k), !.calls = Logged(w, "delete", ns, TRUE),
                 !.deleted = IF ns = "sess" /\ k \in DOMAIN w.sess
                             THEN @ \cup {k} ELSE @]

Throw(w, e) == [w EXCEPT !.err = e]
Ok(w)       == w.err = "none"
\* the backend calls of this run that failed
Faulted(w) == {i \in 1..Len(w.calls) : w.calls[i].ns # "provider" /\ ~w.calls[i].ok}

\* ------------------------------------------------------------- JS arithmetic
Truthy(x)      == x \notin {0, NaN, JsonNull, Undefined}
\* x * 1000, from seconds to milliseconds
JsMul1000(x)   == IF x \in {NaN, Undefined} THEN NaNMs
                  ELSE IF x = JsonNull THEN Ms(0, 0) ELSE Ms(x, 0)
\* a + b on milliseconds
JsAdd(a, b)    == IF a = NaNMs \/ b = NaNMs THEN NaNMs
                  ELSE Ms(a.s + b.s + ((a.ms + b.ms) \div 1000), (a.ms + b.ms) % 1000)
\* Math.floor(x / 1000), from milliseconds to seconds
JsFloorSec(x)  == IF x = NaNMs THEN NaN ELSE x.s
OrElse(x, d)   == IF Truthy(x) THEN x ELSE d                 \* x || d
OrElseTok(t, d) == IF t # NoTok THEN t ELSE d                \* t || d

\* ------------------------------------------------------------------ provider
\* The token endpoint's answer to one POST: non-2xx, or a JSON body.
\* To an authorization_code grant: a body without access_token, or a full one
\* (the offline_access scope is requested, so with a refresh_token) in which
\* expires_in may be absent. To a refresh_token grant: a body in which the
\* refresh_token and expires_in may each be absent; it carries no subject.
FailedResp == [ok |-> FALSE, at |-> FALSE, rt |-> FALSE, ei |-> Undefined, sub |-> "u1"]
Responses ==
  {FailedResp}
  \cup [ok : {TRUE}, at : {FALSE}, rt : {FALSE}, ei : {Undefined}, sub : {"u1"}]
  \cup [ok : {TRUE}, at : {TRUE}, rt : {TRUE}, ei : ExpiresInChoices, sub : Users]
\* the same, and a full body whose id_token is missing or malformed
ResponsesAll ==
  Responses
  \cup [ok : {TRUE}, at : {TRUE}, rt : {TRUE}, ei : {DefaultExpiresIn}, sub : {NoSub}]
RefreshResponses ==
  {FailedResp}
  \cup [ok : {TRUE}, at : {TRUE}, rt : BOOLEAN, ei : ExpiresInChoices, sub : {"u1"}]

TokenJson(resp, g) ==
  [access_token  |-> IF resp.at THEN AT(g) ELSE NoTok,
   refresh_token |-> IF resp.rt THEN RT(g) ELSE NoTok,
   expires_in    |-> resp.ei,
   sub           |-> resp.sub]
NoTokens == [access_token |-> NoTok, refresh_token |-> NoTok,
             expires_in |-> Undefined, sub |-> "u1"]

\* exchangeCodeForToken: [w, tok]
exchangeCodeForToken(w, state, codeVerifier, resp) ==
  LET w1 == [w EXCEPT !.calls = Logged(w, "exchange", "provider", resp.ok),
                      !.exch = MapPut(@, state,
                                  Append(IF state \in DOMAIN @ THEN @[state] ELSE <<>>,
                                         codeVerifier))]
  IN IF ~resp.ok THEN [w |-> Throw(w1, "ExchangeFailed"), tok |-> NoTokens]
     ELSE [w |-> [w1 EXCEPT !.grants = @ + 1], tok |-> TokenJson(resp, w.grants + 1)]

\* refreshAccessToken: [w, tok]
refreshAccessToken(w, refreshToken, resp) ==
  LET w1 == [w EXCEPT !.calls = Logged(w, "refresh", "provider", resp.ok)]
  IN IF ~resp.ok THEN [w |-> Throw(w1, "RefreshFailed"), tok |-> NoTokens]
     ELSE [w |-> [w1 EXCEPT !.grants = @ + 1], tok |-> TokenJson(resp, w.grants + 1)]

\* ------------------------------------------------------------- auth.service
\* variant: the state entry is read but not deleted before the exchange
processAuthCallback_KeepsState(w, req, resp) ==
  IF req.error THEN [w |-> Throw(w, "ProviderError"), tok |-> NoTokens]
  ELSE IF ~req.code THEN [w |-> Throw(w, "NoCode"), tok |-> NoTokens]
  ELSE IF ~req.hasState THEN [w |-> Throw(w, "NoState"), tok |-> NoTokens]
  ELSE LET g == KvGet(w, "auth", req.state) IN
    IF ~Ok(g.w) THEN [w |-> g.w, tok |-> NoTokens]
    ELSE IF ~g.found THEN [w |-> Throw(g.w, "InvalidState"), tok |-> NoTokens]
    ELSE exchangeCodeForToken(g.w, req.state, g.val.codeVerifier, resp)

\* variant: a missing state entry is not rejected; the exchange goes out with
\* an empty verifier
processAuthCallback_NoStateCheck(w, req, resp) ==
  IF req.error THEN [w |-> Throw(w, "ProviderError"), tok |-> NoTokens]
  ELSE IF ~req.code THEN [w |-> Throw(w, "NoCode"), tok |-> NoTokens]
  ELSE IF ~req.hasState THEN [w |-> Throw(w, "NoState"), tok |-> NoTokens]
  ELSE LET g == KvGet(w, "auth", req.state) IN
    IF ~Ok(g.w) THEN [w |-> g.w, tok |-> NoTokens]
    ELSE IF ~g.found
    THEN exchangeCodeForToken(g.w, req.state, CodeVerifier(NoState), resp)
    ELSE LET d == KvDelete(g.w, "auth", req.state) IN
      IF ~Ok(d) THEN [w |-> d, tok |-> NoTokens]
      ELSE exchangeCodeForToken(d, req.state, g.val.codeVerifier, resp)

\* processAuthCallback: [w, tok]
processAuthCallback(w, req, resp) ==
  IF req.error THEN [w |-> Throw(w, "ProviderError"), tok |-> NoTokens]
  ELSE IF ~req.code THEN [w |-> Throw(w, "NoCode"), tok |-> NoTokens]
  ELSE IF ~req.hasState THEN [w |-> Throw(w, "NoState"), tok |-> NoTokens]
  ELSE LET g == KvGet(w, "auth", req.state) IN
    IF ~Ok(g.w) THEN [w |-> g.w, tok |-> NoTokens]
    ELSE IF ~g.found THEN [w |-> Throw(g.w, "InvalidState"), tok |-> NoTokens]
    ELSE LET d == KvDelete(g.w, "auth", req.state) IN
      IF ~Ok(d) THEN [w |-> d, tok |-> NoTokens]
      ELSE exchangeCodeForToken(d, req.state, g.val.codeVerifier, resp)

\* ---------------------------------------------------------- SessionService
\* the record as written: expiresAt in epoch seconds
StoredRecord(data) ==
  [userId |-> data.userId, accessToken |-> data.accessToken,
   refreshToken |-> data.refreshToken, expiresAt |-> JsFloorSec(data.expiresAt)]

\* the record as returned: expiresAt in epoch milliseconds
ReturnedRecord(kvRes) ==
  [userId |-> kvRes.userId, accessToken |-> kvRes.accessToken,
   refreshToken |-> kvRes.refreshToken, expiresAt |-> JsMul1000(kvRes.expiresAt)]

\* the SessionData built from a refresh response
RefreshedData(kvRes, tok, now) ==
  [userId |-> kvRes.userId,
   accessToken |-> tok.access_token,
   refreshToken |-> OrElseTok(tok.refresh_token, kvRes.refreshToken),
   expiresAt |-> JsMul1000(now + OrElse(tok.expires_in, DefaultExpiresIn))]

NoData == [userId |-> "u1", accessToken |-> NoTok, refreshToken |-> NoTok,
           expiresAt |-> NaNMs]

\* getUserSessionId: [w, sid]; a failed read is caught and gives null
getUserSessionId(w, userId) ==
  LET g == KvGet(w, "idx", userId) IN
  IF ~Ok(g.w) THEN [w |-> Caught(g.w), sid |-> NoSid]
  ELSE IF g.found THEN [w |-> g.w, sid |-> g.val.str]
  ELSE [w |-> g.w, sid |-> NoSid]

\* variant: a failed delete is rethrown, as updateSession rethrows
deleteSession_Rethrows(w, sessionId) == KvDelete(w, "sess", sessionId)

\* deleteSession: a failed delete is swallowed
deleteSession(w, sessionId) == Caught(KvDelete(w, "sess", sessionId))

\* deleteUserSession: a failed delete is swallowed
deleteUserSession(w, userId) == Caught(KvDelete(w, "idx", userId))

\* variant: a failed put is swallowed, as the deletes' failures are
updateSession_Swallows(w, sessionId, data) ==
  Caught(KvPut(w, "sess", sessionId, StoredRecord(data), NowSec + SessionTtl))

\* updateSession: a failed put is rethrown
updateSession(w, sessionId, data) ==
  KvPut(w, "sess", sessionId, StoredRecord(data), NowSec + SessionTtl)

\* variant: the user's existing session is not cleaned up
createUserSession_NoCleanup(w, sessionId, userId, data) ==
  LET expiresAt == NowSec + SessionTtl
      i  == getUserSessionId(w, userId)
      w2 == KvPut(i.w, "sess", sessionId, StoredRecord(data), expiresAt)
  IN IF ~Ok(w2) THEN w2
     ELSE KvPut(w2, "idx", userId, [str |-> sessionId], expiresAt)

\* createUserSession
createUserSession(w, sessionId, userId, data) ==
  LET expiresAt == NowSec + SessionTtl
      i  == getUserSessionId(w, userId)
      w1 == IF i.sid # NoSid /\ i.sid # sessionId
            THEN deleteSession(i.w, i.sid) ELSE i.w
      w2 == KvPut(w1, "sess", sessionId, StoredRecord(data), expiresAt)
  IN IF ~Ok(w2) THEN w2
     ELSE KvPut(w2, "idx", userId, [str |-> sessionId], expiresAt)

\* variant: a failed refresh or write leaves the record, as refreshTokens does
getSession_KeepsRecord(w, sessionId, resp) ==
  LET g == KvGet(w, "sess", sessionId) IN
  IF ~Ok(g.w) THEN [w |-> Caught(g.w), found |-> FALSE, data |-> NoData]
  ELSE IF ~g.found THEN [w |-> g.w, found |-> FALSE, data |-> NoData]
  ELSE LET kvRes == g.val
           now   == NowSec IN
    IF Truthy(kvRes.expiresAt) /\ kvRes.expiresAt < now
    THEN LET r == refreshAccessToken(g.w, kvRes.refreshToken, resp) IN
      IF ~Ok(r.w)
      THEN [w |-> Caught(r.w), found |-> FALSE, data |-> NoData]
      ELSE LET data == RefreshedData(kvRes, r.tok, now)
               u    == updateSession(r.w, sessionId, data) IN
        IF ~Ok(u)
        THEN [w |-> Caught(u), found |-> FALSE, data |-> NoData]
        ELSE [w |-> u, found |-> TRUE, data |-> data]
    ELSE [w |-> g.w, found |-> TRUE, data |-> ReturnedRecord(kvRes)]

\* variant: a record expiring in the current second is refreshed already
getSession_RefreshesAtExpiry(w, sessionId, resp) ==
  LET g == KvGet(w, "sess", sessionId) IN
  IF ~Ok(g.w) THEN [w |-> Caught(g.w), found |-> FALSE, data |-> NoData]
  ELSE IF ~g.found THEN [w |-> g.w, found |-> FALSE, data |-> NoData]
  ELSE LET kvRes == g.val
           now   == NowSec IN
    IF Truthy(kvRes.expiresAt) /\ kvRes.expiresAt <= now
    THEN LET r == refreshAccessToken(g.w, kvRes.refreshToken, resp) IN
      IF ~Ok(r.w)
      THEN [w |-> deleteSession(Caught(r.w), sessionId), found |-> FALSE, data |-> NoData]
      ELSE LET data == RefreshedData(kvRes, r.tok, now)
               u    == updateSession(r.w, sessionId, data) IN
        IF ~Ok(u)
        THEN [w |-> deleteSession(Caught(u), sessionId), found |-> FALSE, data |-> NoData]
        ELSE [w |-> u, found |-> TRUE, data |-> data]
    ELSE [w |-> g.w, found |-> TRUE, data |-> ReturnedRecord(kvRes)]

\* getSession: [w, found, data]
getSession(w, sessionId, resp) ==
  LET g == KvGet(w, "sess", sessionId) IN
  IF ~Ok(g.w) THEN [w |-> Caught(g.w), found |-> FALSE, data |-> NoData]
  ELSE IF ~g.found THEN [w |-> g.w, found |-> FALSE, data |-> NoData]
  ELSE LET kvRes == g.val
           now   == NowSec IN
    IF Truthy(kvRes.expiresAt) /\ kvRes.expiresAt < now
    THEN LET r == refreshAccessToken(g.w, kvRes.refreshToken, resp) IN
      IF ~Ok(r.w)
      THEN [w |-> deleteSession(Caught(r.w), sessionId), found |-> FALSE, data |-> NoData]
      ELSE LET data == RefreshedData(kvRes, r.tok, now)
               u    == updateSession(r.w, sessionId, data) IN
        IF ~Ok(u)
        THEN [w |-> deleteSession(Caught(u), sessionId), found |-> FALSE, data |-> NoData]
        ELSE [w |-> u, found |-> TRUE, data |-> data]
    ELSE [w |-> g.w, found |-> TRUE, data |-> ReturnedRecord(kvRes)]

\* variant: a failed refresh or write deletes the record, as getSession does
refreshTokens_DeletesOnFailure(w, sessionId, resp) ==
  LET g == KvGet(w, "sess", sessionId) IN
  IF ~Ok(g.w) THEN [w |-> g.w, found |-> FALSE, data |-> NoData]
  ELSE IF ~g.found THEN [w |-> g.w, found |-> FALSE, data |-> NoData]
  ELSE LET r == refreshAccessToken(g.w, g.val.refreshToken, resp) IN
    IF ~Ok(r.w)
    THEN [w |-> deleteSession(Caught(r.w), sessionId), found |-> FALSE, data |-> NoData]
    ELSE LET data == RefreshedData(g.val, r.tok, NowSec)
             u    == updateSession(r.w, sessionId, data) IN
      IF ~Ok(u)
      THEN [w |-> deleteSession(Caught(u), sessionId), found |-> FALSE, data |-> NoData]
      ELSE [w |-> u, found |-> TRUE, data |-> data]

\* refreshTokens: [w, found, data]; the first read is not guarded
refreshTokens(w, sessionId, resp) ==
  LET g == KvGet(w, "sess", sessionId) IN
  IF ~Ok(g.w) THEN [w |-> g.w, found |-> FALSE, data |-> NoData]
  ELSE IF ~g.found THEN [w |-> g.w, found |-> FALSE, data |-> NoData]
  ELSE LET r == refreshAccessToken(g.w, g.val.refreshToken, resp) IN
    IF ~Ok(r.w) THEN [w |-> Caught(r.w), found |-> FALSE, data |-> NoData]
    ELSE LET data == RefreshedData(g.val, r.tok, NowSec)
             u    == updateSession(r.w, sessionId, data) IN
      IF ~Ok(u) THEN [w |-> Caught(u), found |-> FALSE, data |-> NoData]
      ELSE [w |-> u, found |-> TRUE, data |-> data]

\* ---------------------------------------------------------------- utils/auth
\* variant: the refresh token is stored in the access token's place
CallbackData_Swapped(userId, tok) ==
  [userId |-> userId, accessToken |-> tok.refresh_token,
   refreshToken |-> tok.access_token,
   expiresAt |-> JsAdd(nowMs, JsMul1000(tok.expires_in))]

\* the SessionData the callback builds from the token response
CallbackData(userId, tok) ==
  [userId |-> userId, accessToken |-> tok.access_token,
   refreshToken |-> tok.refresh_token,
   expiresAt |-> JsAdd(nowMs, JsMul1000(tok.expires_in))]

\* variant: the index is not consulted, every login gets a new session id
handleOAuthCallback_AlwaysMints(w, req, resp, newSid) ==
  LET p == processAuthCallback(w, req, resp) IN
  IF ~Ok(p.w) THEN [w |-> p.w, sid |-> NoSid, tok |-> NoTokens, minted |-> FALSE]
  ELSE IF p.tok.access_token = NoTok
  THEN [w |-> Throw(p.w, "NoAccessToken"), sid |-> NoSid, tok |-> p.tok, minted |-> FALSE]
  ELSE IF p.tok.sub = NoSub
  THEN [w |-> Throw(p.w, "BadIdToken"), sid |-> NoSid, tok |-> p.tok, minted |-> FALSE]
  ELSE LET userId == p.tok.sub
           data   == CallbackData(userId, p.tok)
           c      == createUserSession(p.w, newSid, userId, data) IN
       [w |-> c, sid |-> IF Ok(c) THEN newSid ELSE NoSid, tok |-> p.tok, minted |-> TRUE]

\* variant: the cookie carries a newly drawn id also when the existing
\* session was updated in place
handleOAuthCallback_CookieNewId(w, req, resp, newSid) ==
  LET p == processAuthCallback(w, req, resp) IN
  IF ~Ok(p.w) THEN [w |-> p.w, sid |-> NoSid, tok |-> NoTokens, minted |-> FALSE]
  ELSE IF p.tok.access_token = NoTok
  THEN [w |-> Throw(p.w, "NoAccessToken"), sid |-> NoSid, tok |-> p.tok, minted |-> FALSE]
  ELSE IF p.tok.sub = NoSub
  THEN [w |-> Throw(p.w, "BadIdToken"), sid |-> NoSid, tok |-> p.tok, minted |-> FALSE]
  ELSE LET userId == p.tok.sub
           i      == getUserSessionId(p.w, userId)
           data   == CallbackData(userId, p.tok) IN
    IF i.sid # NoSid
    THEN LET u == updateSession(i.w, i.sid, data) IN
         [w |-> u, sid |-> IF Ok(u) THEN newSid ELSE NoSid, tok |-> p.tok, minted |-> TRUE]
    ELSE LET c == createUserSession(i.w, newSid, userId, data) IN
         [w |-> c, sid |-> IF Ok(c) THEN newSid ELSE NoSid, tok |-> p.tok, minted |-> TRUE]

\* variant: the cookie is set before the session is written
handleOAuthCallback_CookieFirst(w, req, resp, newSid) ==
  LET p == processAuthCallback(w, req, resp) IN
  IF ~Ok(p.w) THEN [w |-> p.w, sid |-> NoSid, tok |-> NoTokens, minted |-> FALSE]
  ELSE IF p.tok.access_token = NoTok
  THEN [w |-> Throw(p.w, "NoAccessToken"), sid |-> NoSid, tok |-> p.tok, minted |-> FALSE]
  ELSE IF p.tok.sub = NoSub
  THEN [w |-> Throw(p.w, "BadIdToken"), sid |-> NoSid, tok |-> p.tok, minted |-> FALSE]
  ELSE LET userId == p.tok.sub
           i      == getUserSessionId(p.w, userId)
           data   == CallbackData(userId, p.tok) IN
    IF i.sid # NoSid
    THEN LET u == updateSession(i.w, i.sid, data) IN
         [w |-> u, sid |-> i.sid, tok |-> p.tok, minted |-> FALSE]
    ELSE LET c == createUserSession(i.w, newSid, userId, data) IN
         [w |-> c, sid |-> newSid, tok |-> p.tok, minted |-> TRUE]

\* handleOAuthCallback: [w, sid, sub, tok]; on a normal return the cookie carries sid
handleOAuthCallback(w, req, resp, newSid) ==
  LET p == processAuthCallback(w, req, resp) IN
  IF ~Ok(p.w) THEN [w |-> p.w, sid |-> NoSid, tok |-> NoTokens, minted |-> FALSE]
  ELSE IF p.tok.access_token = NoTok
  THEN [w |-> Throw(p.w, "NoAccessToken"), sid |-> NoSid, tok |-> p.tok, minted |-> FALSE]
  ELSE IF p.tok.sub = NoSub
  THEN [w |-> Throw(p.w, "BadIdToken"), sid |-> NoSid, tok |-> p.tok, minted |-> FALSE]
  ELSE LET userId == p.tok.sub
           i      == getUserSessionId(p.w, userId)
           data   == CallbackData(userId, p.tok) IN
    IF i.sid # NoSid
    THEN LET u == updateSession(i.w, i.sid, data) IN
         [w |-> u, sid |-> IF Ok(u) THEN i.sid ELSE NoSid, tok |-> p.tok, minted |-> FALSE]
    ELSE LET c == createUserSession(i.w, newSid, userId, data) IN
         [w |-> c, sid |-> IF Ok(c) THEN newSid ELSE NoSid, tok |-> p.tok, minted |-> TRUE]

\* ------------------------------------------------- the Worker's bindings
\* c.env: whether SESSIONS_KV is bound and whether SESSION_ENC_SECRET is set.
\* The operators above are the handlers of a Worker with both; the ones below
\* take the bindings as an argument.
Envs == [kv : BOOLEAN, secret : BOOLEAN]
SecretOf(env) == IF env.secret THEN StringArg(Secret) ELSE NoSecretArg

\* KVService.put and KVService.get of a store built with the given secrets
KvPutWith(secrets, w, ns, k, v, exp) ==
  IF Fails(w)
  THEN [w EXCEPT !.calls = Logged(w, "put", ns, FALSE), !.err = "StorageError"]
  ELSE [w EXCEPT ![ns] = MapPut(@, k, [val |-> Seal(secrets, v), exp |-> exp]),
                 !.calls = Logged(w, "put", ns, TRUE)]
KvGetWith(secrets, w, ns, k) ==
  IF Fails(w)
  THEN [w |-> [w EXCEPT !.calls = Logged(w, "get", ns, FALSE), !.err = "StorageError"],
        found |-> FALSE, val |-> NoTok]
  ELSE LET w1 == [w EXCEPT !.calls = Logged(w, "get", ns, TRUE)] IN
       IF k \notin DOMAIN w[ns] THEN [w |-> w1, found |-> FALSE, val |-> NoTok]
       ELSE CHOOSE a \in {[w |-> w1, found |-> ~o.null,
                            val |-> IF o.null THEN NoTok ELSE o.val] :
                          o \in {Open(secrets, w[ns][k].val)}} : TRUE

\* initiateAuth: without SESSIONS_KV nothing is stored and the URL is returned
\* all the same
initiateAuthIn(env, w, state) ==
  IF env.kv
  THEN KvPutWith(KVService(SecretOf(env), "false").secrets, w, "auth", state,
                 [codeVerifier |-> CodeVerifier(state)], NowSec + StateTtl)
  ELSE w

\* processAuthCallback: [w, tok]
processAuthCallbackIn(env, w, req, resp) ==
  IF req.error THEN [w |-> Throw(w, "ProviderError"), tok |-> NoTokens]
  ELSE IF ~req.code THEN [w |-> Throw(w, "NoCode"), tok |-> NoTokens]
  ELSE IF ~req.hasState THEN [w |-> Throw(w, "NoState"), tok |-> NoTokens]
  ELSE IF ~env.kv THEN [w |-> Throw(w, "KvRequired"), tok |-> NoTokens]
  ELSE CHOOSE a \in
    {IF ~Ok(g.w) THEN [w |-> g.w, tok |-> NoTokens]
     ELSE IF ~g.found THEN [w |-> Throw(g.w, "InvalidState"), tok |-> NoTokens]
     ELSE LET d == KvDelete(g.w, "auth", req.state) IN
       IF ~Ok(d) THEN [w |-> d, tok |-> NoTokens]
       ELSE exchangeCodeForToken(d, req.state, g.val.codeVerifier, resp) :
     g \in {KvGetWith(KVService(SecretOf(env), "false").secrets, w, "auth", req.state)}} :
    TRUE

\* handleOAuthCallback: the bindings are looked at after processAuthCallback
\* has returned the tokens; with both present the rest is handleOAuthCallback
\* above (processAuthCallbackIn is then processAuthCallback)
handleOAuthCallbackIn(env, w, req, resp, newSid) ==
  CHOOSE a \in
    {IF ~Ok(p.w) THEN [w |-> p.w, sid |-> NoSid, tok |-> NoTokens, minted |-> FALSE]
     ELSE IF p.tok.access_token = NoTok
     THEN [w |-> Throw(p.w, "NoAccessToken"), sid |-> NoSid, tok |-> p.tok, minted |-> FALSE]
     ELSE IF p.tok.sub = NoSub
     THEN [w |-> Throw(p.w, "BadIdToken"), sid |-> NoSid, tok |-> p.tok, minted |-> FALSE]
     ELSE IF ~env.kv
     THEN [w |-> Throw(p.w, "SessionsKvRequired"), sid |-> NoSid, tok |-> p.tok,
           minted |-> FALSE]
     ELSE IF ~env.secret
     THEN [w |-> Throw(p.w, "SecretRequired"), sid |-> NoSid, tok |-> p.tok,
           minted |-> FALSE]
     ELSE handleOAuthCallback(w, req, resp, newSid) :
     p \in {processAuthCallbackIn(env, w, req, resp)}} : TRUE

\* ------------------------------------------------------------ error texts
\* Error.message of what the handlers throw, as the pieces it is built from;
\* "errorText" is the body of the provider's non-2xx response
ErrorMessage(err) ==
  CASE err = "ExchangeFailed" ->
         <<"Token exchange failed: ", "status", " ", "statusText", " - ", "errorText">>
    [] err = "RefreshFailed" -> <<"Token refresh failed: ", "status", " ", "statusText">>
    [] err = "ProviderError" -> <<"error_description">>
    [] err = "NoCode" -> <<"No code provided">>
    [] err = "NoState" -> <<"No state provided">>
    [] err = "InvalidState" -> <<"Invalid or expired OAuth state">>
    [] err = "NoAccessToken" -> <<"Token exchange failed">>
    [] err = "BadIdToken" -> <<"TypeError / SyntaxError message">>
    [] err = "StorageError" -> <<"backend error message">>
    [] err = "KvRequired" -> <<"KV namespace required for authentication">>
    [] err = "SessionsKvRequired" -> <<"SESSIONS_KV required">>
    [] err = "SecretRequired" -> <<"SESSION_ENC_SECRET required">>
    [] OTHER -> <<>>

\* the text GET /callback sends with a status 500
ResponseText(status, err) ==
  IF status = "500" THEN <<"Error during authentication: ">> \o ErrorMessage(err)
  ELSE <<>>

\* -------------------------------------------------------------------- routes
\* what a route answered: the response's status, the exception text it showed,
\* the session id signed into a cookie, the tokens and whether an id was drawn
Answered(w, status) ==
  [w |-> w, status |-> status, err |-> "none", sid |-> NoSid, tok |-> NoTokens,
   minted |-> FALSE]
\* (the one-element sets bind a result that is used several times)
AfterCallback(r) ==
  CHOOSE a \in {[w |-> Caught(h.w),
                 status |-> IF Ok(h.w) THEN "redirect_plugin" ELSE "500",
                 err |-> h.w.err, sid |-> h.sid,
                 tok |-> IF Ok(h.w) THEN h.tok ELSE NoTokens,
                 minted |-> h.minted] : h \in {r}} : TRUE

\* variant: the route hands every request to handleOAuthCallback
callbackRoute_NoEarlyChecks(w, req, resp, newSid) ==
  AfterCallback(handleOAuthCallback(w, req, resp, newSid))

\* GET /callback: error and missing code end the request before anything is
\* looked up
callbackRoute(w, req, resp, newSid) ==
  IF req.error THEN Answered(w, "400")
  ELSE IF ~req.code THEN Answered(w, "redirect_login")
  ELSE AfterCallback(handleOAuthCallback(w, req, resp, newSid))

\* variant of GET /logout: the deletes are made on the backend directly, so
\* that their failures reach the route
logoutRoute_StrictDeletes(w, sessionId, resp) ==
  CHOOSE a \in
    {LET w1 == IF g.found THEN KvDelete(g.w, "idx", g.data.userId) ELSE g.w
         w2 == IF Ok(w1) THEN KvDelete(w1, "sess", sessionId) ELSE w1
     IN [w |-> Caught(w2), status |-> IF Ok(w2) THEN "redirect_home" ELSE "500",
         cleared |-> Ok(w2)] :
     g \in {getSession(w, sessionId, resp)}} : TRUE

\* GET /logout with a signed session cookie: [w, status, cleared]. The route
\* has no try/catch: what a call throws ends it, and app.onError answers 500
\* without the Set-Cookie that clears the cookie.
logoutRoute(w, sessionId, resp) ==
  CHOOSE a \in
    {LET w1 == IF g.found THEN deleteUserSession(g.w, g.data.userId) ELSE g.w
         w2 == IF Ok(w1) THEN deleteSession(w1, sessionId) ELSE w1
     IN [w |-> Caught(w2), status |-> IF Ok(w2) THEN "redirect_home" ELSE "500",
         cleared |-> Ok(w2)] :
     g \in {getSession(w, sessionId, resp)}} : TRUE

\* GET /callback of a Worker with the given bindings
callbackRouteIn(env, w, req, resp, newSid) ==
  IF req.error THEN Answered(w, "400")
  ELSE IF ~req.code THEN Answered(w, "redirect_login")
  ELSE AfterCallback(handleOAuthCallbackIn(env, w, req, resp, newSid))

\* renderPlugin after its callback block: the cookie the request came with
\* names the session to read
ReadSession(cb, cookie, refreshResp) ==
  CHOOSE a \in {[cb EXCEPT !.w = g.w,
                          !.status = IF g.found THEN "page" ELSE "redirect_login"]
                   : g \in {getSession(cb.w, cookie, refreshResp)}} : TRUE
AfterBlock(block, cookie, refreshResp) ==
  CHOOSE a \in {IF cb.status # "redirect_plugin" THEN cb
                ELSE IF cookie = NoSid THEN [cb EXCEPT !.status = "redirect_login"]
                ELSE ReadSession(cb, cookie, refreshResp) : cb \in {block}} : TRUE

\* variant: the page handler hands every request with a parameter on
renderPlugin_NoEarlyChecks(w, req, cookie, resp, refreshResp, newSid) ==
  LET cb == IF req.code \/ req.error
            THEN AfterCallback(handleOAuthCallback(w, req, resp, newSid))
            ELSE Answered(w, "redirect_plugin")
  IN AfterBlock(cb, cookie, refreshResp)

\* GET /callback/plugin and GET /dashboard: renderPlugin. With a code or an
\* error parameter it first does what GET /callback does; then it reads the
\* session named by the cookie the request came with.
renderPlugin(w, req, cookie, resp, refreshResp, newSid) ==
  LET cb == IF req.code \/ req.error
            THEN callbackRoute(w, req, resp, newSid)
            ELSE Answered(w, "redirect_plugin")
  IN AfterBlock(cb, cookie, refreshResp)

\* ------------------------------------------------------------------- state
NoOp == [op |-> "none"]

Init ==
  /\ nowMs = Epoch0
  /\ authKV = <<>> /\ sessKV = <<>> /\ idxKV = <<>>
  /\ nextState = 0 /\ nextSid = 0 /\ grants = 0
  /\ cookies = {}
  /\ issued = <<>> /\ exch = <<>> /\ deleted = {}
  /\ last = NoOp /\ prev = NoOp
  /\ faults = 0 /\ ticks = 0
  /\ procs = <<>>

\* the backend failures a handler may meet: those the budget still allows
FailSets(B) == {f \in SUBSET (1..MaxCalls) : Cardinality(f) <= B.faults - faults}

ProviderCalled(w) == \E i \in 1..Len(w.calls) : w.calls[i].ns = "provider"
\* The responses worth trying for a run, given the same run under a non-2xx
\* response: that one alone when the run never calls the provider (it cannot
\* tell responses apart), else all of them.
Answers(probe, all) == IF ProviderCalled(probe) THEN all ELSE {FailedResp}

\* the backend calls of a run that failed, as <<operation, store>>
FailedCalls(w) == {<<w.calls[i].op, w.calls[i].ns>> : i \in Faulted(w)}

\* what a finished run leaves behind; every injected failure was met
Commit(B, w) ==
  /\ Faulted(w) = w.fail
  /\ w.grants <= B.grants
  /\ authKV' = w.auth /\ sessKV' = w.sess /\ idxKV' = w.idx
  /\ grants' = w.grants /\ exch' = w.exch /\ deleted' = w.deleted
  /\ faults' = faults + Cardinality(w.fail)

\* the stored session record, as written, and whether there is one
Stored(sid) == sid \in DOMAIN sessKV
StoredText(sid) ==
  IF Stored(sid) THEN sessKV[sid].val.text ELSE StoredRecord(NoData)

\* ---------------------------------------------------- Spec: request handlers
\* the passing of time; the backend drops what has expired
Tick(B) ==
  \E d \in TickSteps :
    /\ ticks < B.ticks
    /\ ticks' = ticks + 1
    /\ nowMs' = JsAdd(nowMs, d)
    /\ authKV' = Expire(authKV, nowMs'.s)
    /\ sessKV' = Expire(sessKV, nowMs'.s)
    /\ idxKV'  = Expire(idxKV, nowMs'.s)
    /\ last' = [op |-> "tick"]
    /\ UNCHANGED <<nextState, nextSid, grants, cookies, issued, exch, deleted,
                   prev, faults, procs>>

\* GET /auth/login (and GET /): initiateAuth
Login(B) ==
  \E fail \in FailSets(B) :
    LET state == nextState + 1
        v == CodeVerifier(state)
        w == KvPut(World(fail), "auth", state, [codeVerifier |-> v], NowSec + StateTtl)
    IN /\ nextState < B.states
       /\ Commit(B, w)
       /\ nextState' = IF Ok(w) THEN state ELSE nextState
       /\ issued' = IF Ok(w) THEN MapPut(issued, state, v) ELSE issued
       /\ last' = [op |-> "login", err |-> w.err]
       /\ UNCHANGED <<nowMs, nextSid, cookies, prev, ticks, procs>>

\* the callback requests a browser can send; the ones explored carry a code and
\* a state, issued so far or never issued (0)
Req(error, code, hasState, state) ==
  [error |-> error, code |-> code, hasState |-> hasState, state |-> state]
Requests ==
  {Req(FALSE, TRUE, TRUE, s) : s \in 0..nextState}

\* GET /callback, the provider answering from the given responses. The cookie
\* is set by handleOAuthCallback: a session id it returns is in the response.
CallbackAnswered(B, responses) ==
  \E req \in Requests, fail \in FailSets(B) :
  \E resp \in Answers(callbackRoute(World(fail), req, FailedResp, nextSid + 1).w,
                       responses) :
  \E r \in {callbackRoute(World(fail), req, resp, nextSid + 1)} :
    /\ Commit(B, r.w)
    /\ nextSid' = IF r.minted THEN nextSid + 1 ELSE nextSid
    /\ cookies' = IF r.sid # NoSid THEN cookies \cup {r.sid} ELSE cookies
    /\ last' = [op |-> "callback", state |-> req.state,
                status |-> r.status, err |-> r.err, sid |-> r.sid, tok |-> r.tok,
                had |-> req.state \in DOMAIN authKV,
                exchanged |-> ProviderCalled(r.w),
                minted |-> r.minted /\ r.status = "redirect_plugin",
                failed |-> FailedCalls(r.w)]
    /\ UNCHANGED <<nowMs, nextState, issued, prev, ticks, procs>>

\* GET /callback
Callback(B) == CallbackAnswered(B, Responses)

\* GET /dashboard with a signed session cookie: renderPlugin's getSession.
\* cookies holds every identifier ever signed into a cookie: deleteCookie
\* clears one browser's copy, the signed value stays presentable.
Dashboard(B) ==
  \E sid \in cookies, fail \in FailSets(B) :
  \E resp \in Answers(getSession(World(fail), sid, FailedResp).w, RefreshResponses) :
    LET r == getSession(World(fail), sid, resp) IN
    /\ Commit(B, r.w)
    /\ last' = [op |-> "dashboard", sid |-> sid, found |-> r.found,
                data |-> r.data, had |-> Stored(sid), before |-> StoredText(sid),
                failed |-> FailedCalls(r.w)]
    /\ UNCHANGED <<nowMs, nextState, nextSid, cookies, issued, prev, ticks, procs>>

\* GET /logout with a signed session cookie
Logout(B) ==
  \E sid \in cookies, fail \in FailSets(B) :
  \E resp \in Answers(getSession(World(fail), sid, FailedResp).w, RefreshResponses) :
  \E r \in {logoutRoute(World(fail), sid, resp)} :
    /\ Commit(B, r.w)
    /\ last' = [op |-> "logout", sid |-> sid, failed |-> FailedCalls(r.w)]
    /\ UNCHANGED <<nowMs, nextState, nextSid, cookies, issued, prev, ticks, procs>>

Next ==
  \/ Tick(SpecBounds) \/ Login(SpecBounds) \/ Callback(SpecBounds)
  \/ Dashboard(SpecBounds) \/ Logout(SpecBounds)

Spec == Init /\ [][Next]_vars

\* ------------------------------------------- SpecLong: handlers, longer runs
NextLong ==
  \/ Tick(LongBounds) \/ Login(LongBounds) \/ Callback(LongBounds)
  \/ Dashboard(LongBounds) \/ Logout(LongBounds)

SpecLong == Init /\ [][NextLong]_vars

\* ------------------------------------- SpecFault: handlers, failing backend
NextFault ==
  \/ Tick(FaultBounds) \/ Login(FaultBounds) \/ Callback(FaultBounds)
  \/ Dashboard(FaultBounds) \/ Logout(FaultBounds)

SpecFault == Init /\ [][NextFault]_vars

\* ------------------------------ SpecApi: SessionService called directly
SessionIds == 1..MaxIds
\* the SessionData a caller passes: tokens of its own, valid for an hour
CallerTok(kind, n) == [kind |-> kind, n |-> n, by |-> "caller"]
CallerData(u, n) ==
  [userId |-> u, accessToken |-> CallerTok("access", n),
   refreshToken |-> CallerTok("refresh", n),
   expiresAt |-> JsAdd(nowMs, Ms(DefaultExpiresIn, 0))]

Called(w, op, ns) == \E i \in 1..Len(w.calls) : w.calls[i].op = op /\ w.calls[i].ns = ns

\* createUserSession(sessionId, userId, data), the n-th call with data of its
\* own; prev keeps the latest create while no other method has been called since
ApiCreate ==
  \E sid \in SessionIds, u \in Users :
    LET data == CallerData(u, nextSid + 1)
        w == createUserSession(World({}), sid, u, data) IN
    /\ nextSid < MaxCreates
    /\ nextSid' = nextSid + 1
    /\ Commit(ApiBounds, w)
    /\ last' = [op |-> "create", sid |-> sid, user |-> u, data |-> data,
                after |-> prev, deleting |-> Called(w, "delete", "sess")]
    /\ prev' = [op |-> "create", sid |-> sid, user |-> u]
    /\ UNCHANGED <<nowMs, nextState, cookies, issued, ticks, procs>>

\* getSession(sessionId)
ApiGetSession ==
  \E sid \in SessionIds :
  \E resp \in Answers(getSession(World({}), sid, FailedResp).w, RefreshResponses) :
    LET r == getSession(World({}), sid, resp) IN
    /\ Commit(ApiBounds, r.w)
    /\ last' = [op |-> "getSession", sid |-> sid, found |-> r.found]
    /\ prev' = NoOp
    /\ UNCHANGED <<nowMs, nextState, nextSid, cookies, issued, ticks, procs>>

\* deleteSession(sessionId)
ApiDeleteSession ==
  \E sid \in SessionIds :
    /\ Commit(ApiBounds, deleteSession(World({}), sid))
    /\ last' = [op |-> "deleteSession", sid |-> sid]
    /\ prev' = NoOp
    /\ UNCHANGED <<nowMs, nextState, nextSid, cookies, issued, ticks, procs>>

\* deleteUserSession(userId)
ApiDeleteUserSession ==
  \E u \in Users :
    /\ Commit(ApiBounds, deleteUserSession(World({}), u))
    /\ last' = [op |-> "deleteUserSession", user |-> u]
    /\ prev' = NoOp
    /\ UNCHANGED <<nowMs, nextState, nextSid, cookies, issued, ticks, procs>>

NextApi ==
  \/ ApiCreate \/ ApiGetSession \/ ApiDeleteSession \/ ApiDeleteUserSession

SpecApi == Init /\ [][NextApi]_vars

\* ------------------- SpecKv: KVService instances sharing one namespace
\* sessKV is the namespace, procs the secret lists of the instances built so
\* far, prev what put last wrote under each key (and with which secrets) as
\* long as nothing else overwrote it.
KvKeys == {"a"}
SecretArgs ==
  {NoSecretArg, StringArg(""), StringArg("k1"), StringArg("k2")}
  \cup {ListArg(l) : l \in {<<"">>, <<"", "k1">>, <<"k1", "k2">>, <<"k2", "k1">>}}
RequireArgs == {"unset", "true", "false"}
\* values that survive JSON.stringify and JSON.parse, and one that does not
JsonValues ==
  {JNull, [json |-> "false"], [str |-> 1],
   [userId |-> "u1", expiresAt |-> DefaultExpiresIn]}
OtherValues == {[userId |-> "u1", expiresAt |-> NaN]}
\* raw values another writer left: plaintext JSON, text that is no JSON, the
\* empty string, a ciphertext under a secret no instance has, and a
\* ciphertext under k2 whose plaintext is no JSON
ForeignRaws ==
  {Plain([str |-> 1]), Plain(GarbageText), Plain(EmptyText),
   [key |-> "k0", text |-> [str |-> 1]], [key |-> "k2", text |-> GarbageText]}

InitKv ==
  /\ nowMs = Epoch0
  /\ authKV = <<>> /\ sessKV = <<>> /\ idxKV = <<>>
  /\ nextState = 0 /\ nextSid = 0 /\ grants = 0
  /\ cookies = {}
  /\ issued = <<>> /\ exch = <<>> /\ deleted = {}
  /\ last = NoOp /\ prev = <<>>
  /\ faults = 0 /\ ticks = 0
  /\ procs = {}

\* new KVService(kv, secret, options): no backend call is made
KvNew ==
  \E secret \in SecretArgs, requireSecret \in RequireArgs :
    LET svc == KVService(secret, requireSecret) IN
    /\ procs' = IF svc.threw THEN procs ELSE procs \cup {svc.secrets}
    /\ last' = [op |-> "new", secret |-> secret, requireSecret |-> requireSecret,
                threw |-> svc.threw, secrets |-> svc.secrets]
    /\ UNCHANGED <<nowMs, authKV, sessKV, idxKV, nextState, nextSid, grants, cookies,
                   issued, exch, deleted, prev, faults, ticks>>

\* put(key, value, expiration) on an instance
KvPutValue ==
  \E secrets \in procs, k \in KvKeys, v \in JsonValues \cup OtherValues :
    /\ sessKV' = MapPut(sessKV, k, [val |-> Seal(secrets, v), exp |-> NowSec + StateTtl])
    /\ prev' = MapPut(prev, k, [value |-> v, secrets |-> secrets])
    /\ last' = [op |-> "put", key |-> k, secrets |-> secrets]
    /\ UNCHANGED <<nowMs, authKV, idxKV, nextState, nextSid, grants, cookies,
                   issued, exch, deleted, faults, ticks, procs>>

\* get(key) on an instance
KvGetValue ==
  \E secrets \in procs, k \in KvKeys :
    /\ last' = [op |-> "get", key |-> k, secrets |-> secrets,
                present |-> k \in DOMAIN sessKV,
                res |-> IF k \in DOMAIN sessKV THEN Open(secrets, sessKV[k].val)
                        ELSE ReturnedNull]
    /\ UNCHANGED <<nowMs, authKV, sessKV, idxKV, nextState, nextSid, grants, cookies,
                   issued, exch, deleted, prev, faults, ticks, procs>>

\* another writer stores a raw value under the key
KvForeignWrite ==
  \E k \in KvKeys, raw \in ForeignRaws :
    /\ sessKV' = MapPut(sessKV, k, [val |-> raw, exp |-> NowSec + StateTtl])
    /\ prev' = MapDel(prev, k)
    /\ last' = [op |-> "foreign", key |-> k]
    /\ UNCHANGED <<nowMs, authKV, idxKV, nextState, nextSid, grants, cookies,
                   issued, exch, deleted, faults, ticks, procs>>

NextKv == KvNew \/ KvPutValue \/ KvGetValue \/ KvForeignWrite \/ Tick(KvBounds)

SpecKv == InitKv /\ [][NextKv]_vars

\* ------------------------- SpecRace: requests interleaved at their awaits
\* Each process runs one operation; a step is one awaited backend or
\* provider call together with the synchronous code up to the next await.
Procs == {"p1", "p2"}
RaceBounds == Bounds(1, Cardinality(Procs), 0, 0)

Idle ==
  [op |-> "idle", pc |-> "idle", state |-> NoState, sid |-> NoSid, user |-> "u1",
   verifier |-> CodeVerifier(NoState), kvRes |-> StoredRecord(NoData),
   existing |-> NoSid, tok |-> NoTokens, data |-> NoData, out |-> "none",
   overlap |-> FALSE]

InFlight(q) == procs[q].pc \notin {"idle", "done"}
Quiet == \A q \in Procs : procs[q].pc = "done"

\* the session user u1 got at Epoch0, with tokens valid for an hour
Session0 ==
  [userId |-> "u1", accessToken |-> AT(0), refreshToken |-> RT(0),
   expiresAt |-> JsAdd(Epoch0, Ms(DefaultExpiresIn, 0))]

\* Half the session lifetime after Epoch0, one login in progress (state 1
\* issued); user u1 either never logged in or holds session 1 from Epoch0,
\* its tokens expired by now.
InitRace ==
  /\ nowMs \in {JsAdd(Epoch0, d) : d \in TickSteps}
  /\ authKV = MapPut(<<>>, 1, [val |-> Seal(Secrets, [codeVerifier |-> CodeVerifier(1)]),
                               exp |-> NowSec + StateTtl])
  /\ \E had \in BOOLEAN :
       /\ sessKV = IF had THEN MapPut(<<>>, 1, [val |-> Seal(Secrets, StoredRecord(Session0)),
                                                exp |-> Epoch0.s + SessionTtl])
                   ELSE <<>>
       /\ idxKV = IF had THEN MapPut(<<>>, "u1", [val |-> Seal(Secrets, [str |-> 1]),
                                                  exp |-> Epoch0.s + SessionTtl])
                  ELSE <<>>
       /\ cookies = IF had THEN {1} ELSE {}
  /\ nextState = 1 /\ nextSid = MaxIds /\ grants = 0
  /\ issued = MapPut(<<>>, 1, CodeVerifier(1)) /\ exch = <<>> /\ deleted = {}
  /\ last = NoOp /\ prev = NoOp
  /\ faults = 0 /\ ticks = 0
  /\ procs = [q \in Procs |-> Idle]

\* a process moves on; the stores change as its call left them
Step(p, w, rec) ==
  /\ Commit(RaceBounds, w)
  /\ procs' = [procs EXCEPT ![p] = rec]
  /\ UNCHANGED <<nowMs, nextState, cookies, issued, prev, ticks>>

Done(rec, out) == [rec EXCEPT !.pc = "done", !.out = out]

\* a request arrives: GET /callback with state 1, a page request with the
\* session cookie, or a direct createUserSession for user u1
RaceBegin(p) ==
  /\ procs[p].pc = "idle"
  /\ \E op \in {"callback", "getSession", "create"}, sid \in SessionIds :
       LET busy == \E q \in Procs : InFlight(q)
           rec  == [Idle EXCEPT
                      !.op = op, !.overlap = busy,
                      !.pc = CASE op = "callback" -> "cb_get"
                               [] op = "getSession" -> "gs_get"
                               [] OTHER -> "cr_idx",
                      !.state = IF op = "callback" THEN 1 ELSE NoState,
                      !.sid = IF op = "callback" THEN NoSid ELSE sid,
                      !.data = IF op = "create" THEN CallerData("u1", sid) ELSE NoData]
       IN /\ op = "callback" => sid = 1
          /\ op = "getSession" => sid \in cookies
          /\ procs' = [q \in Procs |->
                        IF q = p THEN rec
                        ELSE IF InFlight(q) THEN [procs[q] EXCEPT !.overlap = TRUE]
                        ELSE procs[q]]
  /\ UNCHANGED <<nowMs, authKV, sessKV, idxKV, nextState, nextSid, grants, cookies,
                 issued, exch, deleted, last, prev, faults, ticks>>

\* processAuthCallback: await kvService.get(`auth_state:${state}`)
CbGet(p) ==
  /\ procs[p].pc = "cb_get"
  /\ LET g == KvGet(World({}), "auth", procs[p].state) IN
     Step(p, g.w, IF g.found
                  THEN [procs[p] EXCEPT !.pc = "cb_del", !.verifier = g.val.codeVerifier]
                  ELSE Done(procs[p], "InvalidState"))
  /\ UNCHANGED <<nextSid, last>>

\* processAuthCallback: await kvService.delete(`auth_state:${state}`)
CbDel(p) ==
  /\ procs[p].pc = "cb_del"
  /\ Step(p, KvDelete(World({}), "auth", procs[p].state),
          [procs[p] EXCEPT !.pc = "cb_exch"])
  /\ UNCHANGED <<nextSid, last>>

\* exchangeCodeForToken, then handleOAuthCallback's access_token check
CbExch(p) ==
  /\ procs[p].pc = "cb_exch"
  /\ \E resp \in Responses :
       LET r == exchangeCodeForToken(World({}), procs[p].state, procs[p].verifier, resp) IN
       Step(p, Caught(r.w),
            IF ~Ok(r.w) THEN Done(procs[p], r.w.err)
            ELSE IF r.tok.access_token = NoTok THEN Done(procs[p], "NoAccessToken")
            ELSE [procs[p] EXCEPT !.pc = "cb_idx", !.tok = r.tok, !.user = r.tok.sub,
                                  !.data = CallbackData(r.tok.sub, r.tok)])
  /\ UNCHANGED <<nextSid, last>>

\* handleOAuthCallback: await getUserSessionId(userId), then the branch
CbIdx(p) ==
  /\ procs[p].pc = "cb_idx"
  /\ LET i == getUserSessionId(World({}), procs[p].user) IN
     /\ Step(p, i.w, IF i.sid # NoSid
                     THEN [procs[p] EXCEPT !.pc = "upd_put", !.sid = i.sid]
                     ELSE [procs[p] EXCEPT !.pc = "cr_idx", !.sid = nextSid + 1])
     /\ nextSid' = IF i.sid # NoSid THEN nextSid ELSE nextSid + 1
  /\ UNCHANGED last

\* handleOAuthCallback: await updateSession(existingSessionId, data)
UpdPut(p) ==
  /\ procs[p].pc = "upd_put"
  /\ Step(p, updateSession(World({}), procs[p].sid, procs[p].data), Done(procs[p], "ok"))
  /\ UNCHANGED <<nextSid, last>>

\* createUserSession: the await that follows each of its awaits
CreateNextPc_CleanupLast(pc, existing, sessionId) ==
  CASE pc = "cr_idx" -> "cr_put"
    [] pc = "cr_put" -> "cr_putidx"
    [] pc = "cr_putidx" -> IF existing # NoSid THEN "cr_del" ELSE "done"
    [] OTHER -> "done"

CreateNextPc(pc, existing, sessionId) ==
  CASE pc = "cr_idx" -> IF existing # NoSid /\ existing # sessionId
                        THEN "cr_del" ELSE "cr_put"
    [] pc = "cr_del" -> "cr_put"
    [] pc = "cr_put" -> "cr_putidx"
    [] OTHER -> "done"

Advance(rec, pc) == IF pc = "done" THEN Done(rec, "ok") ELSE [rec EXCEPT !.pc = pc]
CreateAdvance(rec) == Advance(rec, CreateNextPc(rec.pc, rec.existing, rec.sid))

\* createUserSession: await this.getUserSessionId(userId)
CrIdx(p) ==
  /\ procs[p].pc = "cr_idx"
  /\ LET i == getUserSessionId(World({}), procs[p].user) IN
     Step(p, i.w, CreateAdvance([procs[p] EXCEPT !.existing = i.sid]))
  /\ UNCHANGED <<nextSid, last>>

\* createUserSession: await this.deleteSession(existingSessionId)
CrDel(p) ==
  /\ procs[p].pc = "cr_del"
  /\ Step(p, deleteSession(World({}), procs[p].existing), CreateAdvance(procs[p]))
  /\ UNCHANGED <<nextSid, last>>

\* createUserSession: await this.kvService.put(`session:${sessionId}`, ...)
CrPut(p) ==
  /\ procs[p].pc = "cr_put"
  /\ Step(p, KvPut(World({}), "sess", procs[p].sid, StoredRecord(procs[p].data),
                   NowSec + SessionTtl),
          CreateAdvance(procs[p]))
  /\ UNCHANGED <<nextSid, last>>

\* createUserSession: await this.kvService.put(`user_session:${userId}`, sessionId)
CrPutIdx(p) ==
  /\ procs[p].pc = "cr_putidx"
  /\ Step(p, KvPut(World({}), "idx", procs[p].user, [str |-> procs[p].sid],
                   NowSec + SessionTtl),
          CreateAdvance(procs[p]))
  /\ UNCHANGED <<nextSid, last>>

\* getSession: await this.kvService.get(`session:${sessionId}`), the expiry test
GsGet(p) ==
  /\ procs[p].pc = "gs_get"
  /\ LET g == KvGet(World({}), "sess", procs[p].sid) IN
     Step(p, g.w,
          IF ~g.found THEN Done(procs[p], "null")
          ELSE IF Truthy(g.val.expiresAt) /\ g.val.expiresAt < NowSec
          THEN [procs[p] EXCEPT !.pc = "gs_refresh", !.kvRes = g.val]
          ELSE Done([procs[p] EXCEPT !.kvRes = g.val, !.data = ReturnedRecord(g.val)], "ok"))
  /\ UNCHANGED <<nextSid, last>>

\* getSession: await refreshAccessToken(kvRes.refreshToken, env)
GsRefresh(p) ==
  /\ procs[p].pc = "gs_refresh"
  /\ \E resp \in RefreshResponses :
       LET r == refreshAccessToken(World({}), procs[p].kvRes.refreshToken, resp) IN
       Step(p, Caught(r.w),
            IF ~Ok(r.w) THEN [procs[p] EXCEPT !.pc = "gs_del"]
            ELSE [procs[p] EXCEPT !.pc = "gs_put", !.tok = r.tok,
                                  !.data = RefreshedData(procs[p].kvRes, r.tok, NowSec)])
  /\ UNCHANGED <<nextSid, last>>

\* variant: the refreshed record is written only if the stored one is still
\* the one this call read
GsPut_IfUnchanged(p) ==
  /\ procs[p].pc = "gs_put"
  /\ Step(p, IF StoredText(procs[p].sid) = procs[p].kvRes
             THEN updateSession(World({}), procs[p].sid, procs[p].data)
             ELSE World({}),
          Done(procs[p], "ok"))
  /\ last' = [op |-> "write", by |-> p]
  /\ UNCHANGED nextSid

\* getSession: await this.updateSession(sessionId, refreshed), return it
GsPut(p) ==
  /\ procs[p].pc = "gs_put"
  /\ Step(p, updateSession(World({}), procs[p].sid, procs[p].data), Done(procs[p], "ok"))
  /\ last' = [op |-> "write", by |-> p]
  /\ UNCHANGED nextSid

\* getSession: catch (refreshError): await this.deleteSession(sessionId)
GsDel(p) ==
  /\ procs[p].pc = "gs_del"
  /\ Step(p, deleteSession(World({}), procs[p].sid), Done(procs[p], "null"))
  /\ UNCHANGED <<nextSid, last>>

NextRace ==
  \E p \in Procs :
    \/ RaceBegin(p)
    \/ CbGet(p) \/ CbDel(p) \/ CbExch(p) \/ CbIdx(p) \/ UpdPut(p)
    \/ CrIdx(p) \/ CrDel(p) \/ CrPut(p) \/ CrPutIdx(p)
    \/ GsGet(p) \/ GsRefresh(p) \/ GsPut(p) \/ GsDel(p)

SpecRace == InitRace /\ [][NextRace]_vars

\* ------------------------- SpecTabs: two logins in progress, then callbacks
\* Two logins were started (two tabs, states 1 and 2) and nobody holds a
\* session; the two callbacks arrive and interleave at their awaits.
StateOf(p) == IF p = "p1" THEN 1 ELSE 2

InitTabs ==
  /\ nowMs = Epoch0
  /\ authKV = [st \in {StateOf(q) : q \in Procs} |->
                [val |-> Seal(Secrets, [codeVerifier |-> CodeVerifier(st)]),
                 exp |-> NowSec + StateTtl]]
  /\ sessKV = <<>> /\ idxKV = <<>>
  /\ cookies = {}
  /\ nextState = Cardinality(Procs) /\ nextSid = 0 /\ grants = 0
  /\ issued = [st \in {StateOf(q) : q \in Procs} |-> CodeVerifier(st)]
  /\ exch = <<>> /\ deleted = {}
  /\ last = NoOp /\ prev = NoOp
  /\ faults = 0 /\ ticks = 0
  /\ procs = [q \in Procs |-> Idle]

\* GET /callback with the state of the tab
TabsBegin(p) ==
  /\ procs[p].pc = "idle"
  /\ procs' = [q \in Procs |->
                IF q = p
                THEN [Idle EXCEPT !.op = "callback", !.pc = "cb_get", !.state = StateOf(p),
                                  !.overlap = \E r \in Procs : InFlight(r)]
                ELSE IF InFlight(q) THEN [procs[q] EXCEPT !.overlap = TRUE]
                ELSE procs[q]]
  /\ UNCHANGED <<nowMs, authKV, sessKV, idxKV, nextState, nextSid, grants, cookies,
                 issued, exch, deleted, last, prev, faults, ticks>>

NextTabs ==
  \E p \in Procs :
    \/ TabsBegin(p)
    \/ CbGet(p) \/ CbDel(p) \/ CbExch(p) \/ CbIdx(p) \/ UpdPut(p)
    \/ CrIdx(p) \/ CrDel(p) \/ CrPut(p) \/ CrPutIdx(p)

SpecTabs == InitTabs /\ [][NextTabs]_vars

\* ------------ SpecStore: SessionService methods, backend calls may fail
\* what the provider may answer to a refresh: non-2xx, or a body in which the
\* refresh_token may be absent and expires_in is absent, 0 or two hours
StoreExpiresIn == {Undefined, 0, 2 * DefaultExpiresIn}
StoreResponses ==
  {FailedResp}
  \cup [ok : {TRUE}, at : {TRUE}, rt : BOOLEAN, ei : StoreExpiresIn, sub : {"u1"}]

\* the session id the methods are called with, and the user it belongs to
StoreSids == {1}
StoreUsers == {"u1"}

\* user u1 holds session 1 from Epoch0, or nobody holds a session
InitStore ==
  /\ nowMs = Epoch0
  /\ authKV = <<>>
  /\ \E had \in BOOLEAN :
       /\ sessKV = IF had THEN MapPut(<<>>, 1, [val |-> Seal(Secrets, StoredRecord(Session0)),
                                                exp |-> Epoch0.s + SessionTtl])
                   ELSE <<>>
       /\ idxKV = IF had THEN MapPut(<<>>, "u1", [val |-> Seal(Secrets, [str |-> 1]),
                                                  exp |-> Epoch0.s + SessionTtl])
                  ELSE <<>>
  /\ nextState = 0 /\ nextSid = 0 /\ grants = 0
  /\ cookies = {}
  /\ issued = <<>> /\ exch = <<>> /\ deleted = {}
  /\ last = NoOp /\ prev = NoOp
  /\ faults = 0 /\ ticks = 0
  /\ procs = <<>>

\* a method call ended: what it returned or raised, what it was given, the
\* stores as it found them and the calls it made
Outcome(op, sid, user, w, found, data, resp) ==
  [op |-> op, sid |-> sid, user |-> user, raised |-> ~Ok(w), found |-> found,
   data |-> data, resp |-> resp, sessBefore |-> sessKV, idxBefore |-> idxKV,
   calls |-> w.calls]

StoreDone(w, outcome) ==
  /\ Commit(StoreBounds, w)
  /\ last' = outcome
  /\ UNCHANGED <<nowMs, nextState, nextSid, cookies, issued, prev, ticks, procs>>

\* getSession(sessionId)
StGetSession ==
  \E sid \in StoreSids, fail \in FailSets(StoreBounds) :
  \E resp \in Answers(getSession(World(fail), sid, FailedResp).w, StoreResponses) :
    LET r == getSession(World(fail), sid, resp) IN
    StoreDone(r.w, Outcome("getSession", sid, "u1", r.w, r.found, r.data, resp))

\* refreshTokens(sessionId)
StRefreshTokens ==
  \E sid \in StoreSids, fail \in FailSets(StoreBounds) :
  \E resp \in Answers(refreshTokens(World(fail), sid, FailedResp).w, StoreResponses) :
    LET r == refreshTokens(World(fail), sid, resp) IN
    StoreDone(r.w, Outcome("refreshTokens", sid, "u1", r.w, r.found, r.data, resp))

\* getUserSessionId(userId)
StGetUserSessionId ==
  \E u \in StoreUsers, fail \in FailSets(StoreBounds) :
    LET r == getUserSessionId(World(fail), u) IN
    StoreDone(r.w, Outcome("getUserSessionId", r.sid, u, r.w, r.sid # NoSid, NoData, FailedResp))

\* updateSession(sessionId, data)
StUpdateSession ==
  \E sid \in StoreSids, u \in StoreUsers, fail \in FailSets(StoreBounds) :
    LET data == CallerData(u, 1)
        w == updateSession(World(fail), sid, data) IN
    StoreDone(w, Outcome("updateSession", sid, u, w, FALSE, data, FailedResp))

\* deleteSession(sessionId)
StDeleteSession ==
  \E sid \in StoreSids, fail \in FailSets(StoreBounds) :
    LET w == deleteSession(World(fail), sid) IN
    StoreDone(w, Outcome("deleteSession", sid, "u1", w, FALSE, NoData, FailedResp))

\* deleteUserSession(userId)
StDeleteUserSession ==
  \E u \in StoreUsers, fail \in FailSets(StoreBounds) :
    LET w == deleteUserSession(World(fail), u) IN
    StoreDone(w, Outcome("deleteUserSession", NoSid, u, w, FALSE, NoData, FailedResp))

NextStore ==
  \/ StGetSession \/ StRefreshTokens \/ StGetUserSessionId
  \/ StUpdateSession \/ StDeleteSession \/ StDeleteUserSession
  \/ Tick(StoreBounds)

SpecStore == InitStore /\ [][NextStore]_vars

\* ------------------- SpecRoute: the routes, callback requests of any shape
\* with or without error, code and state parameters
AllRequests ==
  {Req(e, c, h, st) : e \in BOOLEAN, c \in BOOLEAN, h \in BOOLEAN, st \in 0..nextState}

\* a request was answered: what it carried, the answer, the calls made and
\* what the stores and the cookie jar held when it arrived
Handled(op, req, cookie, r) ==
  [op |-> op, req |-> req, cookie |-> cookie, status |-> r.status, sid |-> r.sid,
   calls |-> r.w.calls, authBefore |-> authKV, sessBefore |-> sessKV,
   idxBefore |-> idxKV, cookiesBefore |-> cookies, exchBefore |-> exch]

RouteDone(op, req, cookie, r) ==
  /\ Commit(RouteBounds, r.w)
  /\ nextSid' = IF r.minted THEN nextSid + 1 ELSE nextSid
  /\ cookies' = IF r.sid # NoSid THEN cookies \cup {r.sid} ELSE cookies
  /\ last' = Handled(op, req, cookie, r)
  /\ UNCHANGED <<nowMs, nextState, issued, prev, ticks, procs>>

\* GET /callback
RouteCallback ==
  \E req \in AllRequests :
  \E resp \in Answers(callbackRoute(World({}), req, FailedResp, nextSid + 1).w, Responses) :
  \E r \in {callbackRoute(World({}), req, resp, nextSid + 1)} :
    RouteDone("callback", req, NoSid, r)

\* GET /callback/plugin, with or without a signed session cookie
RoutePlugin ==
  \E req \in AllRequests, cookie \in cookies \cup {NoSid} :
  \E resp \in Answers(callbackRoute(World({}), req, FailedResp, nextSid + 1).w, Responses) :
  \E refreshResp \in Answers(getSession(World({}), cookie, FailedResp).w, RefreshResponses) :
  \E r \in {renderPlugin(World({}), req, cookie, resp, refreshResp, nextSid + 1)} :
    RouteDone("plugin", req, cookie, r)

NextRoute == Login(RouteBounds) \/ RouteCallback \/ RoutePlugin

SpecRoute == Init /\ [][NextRoute]_vars

\* ---------------------- SpecCreate: createUserSession, backend calls may fail
\* createUserSession(sessionId, userId, data) for user u1, who holds session 1
\* or none, under the identifier of that session or a new one
StCreateUserSession ==
  \E sid \in SessionIds, u \in StoreUsers, fail \in FailSets(StoreBounds) :
  \E w \in {createUserSession(World(fail), sid, u, CallerData(u, sid))} :
    StoreDone(w, Outcome("createUserSession", sid, u, w, FALSE, CallerData(u, sid),
                         FailedResp))

NextCreate ==
  \/ StCreateUserSession \/ StGetUserSessionId
  \/ StDeleteSession \/ StDeleteUserSession

SpecCreate == InitStore /\ [][NextCreate]_vars

\* ------------------------- SpecCookie: callbacks that fail in every way
\* Logins and callbacks over a backend whose calls may fail, with unknown
\* states and a provider that may refuse, omit the access token or send an
\* id_token that cannot be decoded
CookieBounds == Bounds(OMaxStates, OMaxGrants, 0, OMaxFaults)

NextCookie == Login(CookieBounds) \/ CallbackAnswered(CookieBounds, ResponsesAll)

SpecCookie == Init /\ [][NextCookie]_vars

\* ------------------------------ SpecExpiry: getSession at the expiry boundary
\* getSession, refreshTokens and deleteSession on a record whose stored
\* expiresAt is null, 0, one second before now, now, or one second after
ExpiryChoices == {JsonNull, 0, Epoch0.s - 1, Epoch0.s, Epoch0.s + 1}

InitExpiry ==
  /\ nowMs = Epoch0
  /\ authKV = <<>>
  /\ \E e \in ExpiryChoices :
       sessKV = MapPut(<<>>, 1,
                  [val |-> Seal(Secrets, [StoredRecord(Session0) EXCEPT !.expiresAt = e]),
                   exp |-> Epoch0.s + SessionTtl])
  /\ idxKV = MapPut(<<>>, "u1", [val |-> Seal(Secrets, [str |-> 1]),
                                  exp |-> Epoch0.s + SessionTtl])
  /\ nextState = 0 /\ nextSid = 0 /\ grants = 0
  /\ cookies = {}
  /\ issued = <<>> /\ exch = <<>> /\ deleted = {}
  /\ last = NoOp /\ prev = NoOp
  /\ faults = 0 /\ ticks = 0
  /\ procs = <<>>

NextExpiry == StGetSession \/ StRefreshTokens \/ StDeleteSession

SpecExpiry == InitExpiry /\ [][NextExpiry]_vars

\* ------------------------------------------ SpecLimit: the rate limiter
\* GET /auth/login as index.tsx serves it: the rate limiting middleware of
\* '/auth/*', then the route. procs holds the `ratelimit:auth:{clientIP}` keys
\* of SESSIONS_KV, by client address.
RateLimitMax == 10      \* requests per window
RateLimitTtl == 60      \* seconds, expirationTtl of a counter
ClientIPs == {"ip1", "ip2"}
LimitBounds == Bounds(NMaxStates, 0, NMaxTicks, 0)

\* Number.prototype.toString and parseInt on the counters, as decimal digits
RECURSIVE NumToString(_)
NumToString(n) == IF n < 10 THEN <<n>> ELSE Append(NumToString(n \div 10), n % 10)
RECURSIVE ParseInt(_)
ParseInt(str) ==
  IF Len(str) = 0 THEN NaN
  ELSE IF Len(str) = 1 THEN str[1]
  ELSE 10 * ParseInt(SubSeq(str, 1, Len(str) - 1)) + str[Len(str)]

\* the middleware: [store, limited]. It reads and writes SESSIONS_KV directly;
\* fault is the backend call that fails ("none", "get", "put"), which the
\* middleware logs and lets pass
rateLimit(store, clientIP, fault) ==
  LET current == IF clientIP \in DOMAIN store THEN store[clientIP].val.text ELSE <<>>
      count   == IF Len(current) > 0 THEN ParseInt(current) ELSE 0
  IN IF fault = "get" THEN [store |-> store, limited |-> FALSE]
     ELSE IF count >= RateLimitMax THEN [store |-> store, limited |-> TRUE]
     ELSE IF fault = "put" THEN [store |-> store, limited |-> FALSE]
     ELSE [store |-> MapPut(store, clientIP,
                            [val |-> Plain(NumToString(count + 1)),
                             exp |-> NowSec + RateLimitTtl]),
           limited |-> FALSE]

\* GET /auth/login from a client address
LimitedLogin ==
  \E ip \in ClientIPs, fault \in {"none", "get", "put"} :
  \E r \in {rateLimit(procs, ip, fault)} :
    /\ procs' = r.store
    /\ IF r.limited
       THEN /\ last' = [op |-> "login", ip |-> ip, status |-> "429"]
            /\ UNCHANGED <<nowMs, authKV, sessKV, idxKV, nextState, nextSid, grants,
                           cookies, issued, exch, deleted, prev, faults, ticks>>
       ELSE \E w \in {initiateAuthIn([kv |-> TRUE, secret |-> TRUE], World({}),
                                      nextState + 1)} :
            /\ nextState < LimitBounds.states
            /\ Commit(LimitBounds, w)
            /\ nextState' = nextState + 1
            /\ issued' = MapPut(issued, nextState + 1, CodeVerifier(nextState + 1))
            /\ last' = [op |-> "login", ip |-> ip, status |-> "redirect"]
            /\ UNCHANGED <<nowMs, nextSid, cookies, prev, ticks>>

\* a window passes; the backend drops what has expired
LimitTick ==
  /\ ticks < LimitBounds.ticks
  /\ ticks' = ticks + 1
  /\ nowMs' = JsAdd(nowMs, Ms(RateLimitTtl, 0))
  /\ authKV' = Expire(authKV, nowMs'.s)
  /\ sessKV' = Expire(sessKV, nowMs'.s)
  /\ idxKV'  = Expire(idxKV, nowMs'.s)
  /\ procs'  = Expire(procs, nowMs'.s)
  /\ last' = [op |-> "tick"]
  /\ UNCHANGED <<nextState, nextSid, grants, cookies, issued, exch, deleted,
                 prev, faults>>

NextLimit == LimitedLogin \/ LimitTick

SpecLimit == Init /\ [][NextLimit]_vars

\* ------------------------- SpecBurst: the rate limit, requests in flight together
\* The middleware has two awaits, the get and the put of the counter; requests
\* of one Worker interleave at them. procs holds the counters as in SpecLimit,
\* issued the requests in flight ([ip, pc, count]), exch the number of requests
\* of each client address that passed the middleware since its counter was
\* last absent, prev whether two requests were ever in flight together.
BurstProcs == 1..BMaxInFlight
Passed(ip) == IF ip \in DOMAIN exch THEN exch[ip] ELSE 0
\* await next(): the request reaches the route
Pass(p, fault) ==
  /\ exch' = MapPut(exch, issued[p].ip, Passed(issued[p].ip) + 1)
  /\ issued' = MapDel(issued, p)
  /\ last' = [op |-> "request", ip |-> issued[p].ip, status |-> "pass",
              fault |-> fault]

InitBurst ==
  /\ nowMs = Epoch0
  /\ authKV = <<>> /\ sessKV = <<>> /\ idxKV = <<>>
  /\ nextState = 0 /\ nextSid = 0 /\ grants = 0
  /\ cookies = {}
  /\ issued = <<>> /\ exch = <<>> /\ deleted = {}
  /\ last = NoOp /\ prev = [overlap |-> FALSE]
  /\ faults = 0 /\ ticks = 0
  /\ procs = <<>>

\* a request to /auth/* arrives from a client address
BurstArrive(p) ==
  \E ip \in ClientIPs :
    /\ p \notin DOMAIN issued
    /\ nextState < BMaxRequests
    /\ nextState' = nextState + 1
    /\ issued' = MapPut(issued, p, [ip |-> ip, pc |-> "get", count |-> 0])
    /\ prev' = [overlap |-> prev.overlap \/ DOMAIN issued # {}]
    /\ UNCHANGED <<nowMs, authKV, sessKV, idxKV, nextSid, grants, cookies, exch,
                   deleted, last, faults, ticks, procs>>

\* const current = await SESSIONS_KV.get(key); count; the 429
BurstGet(p) ==
  \E fault \in BOOLEAN :
    /\ p \in DOMAIN issued /\ issued[p].pc = "get"
    /\ fault => faults < BMaxFaults
    /\ faults' = IF fault THEN faults + 1 ELSE faults
    /\ LET ip      == issued[p].ip
           current == IF ip \in DOMAIN procs THEN procs[ip].val.text ELSE <<>>
           count   == IF Len(current) > 0 THEN ParseInt(current) ELSE 0
       IN IF fault THEN Pass(p, "get")
          ELSE IF count >= RateLimitMax
          THEN /\ issued' = MapDel(issued, p)
               /\ last' = [op |-> "request", ip |-> ip, status |-> "429",
                           fault |-> "none"]
               /\ exch' = exch
          ELSE /\ issued' = MapPut(issued, p, [ip |-> ip, pc |-> "put", count |-> count])
               /\ UNCHANGED <<exch, last>>
    /\ UNCHANGED <<nowMs, authKV, sessKV, idxKV, nextState, nextSid, grants, cookies,
                   deleted, prev, ticks, procs>>

\* await SESSIONS_KV.put(key, (count + 1).toString(), { expirationTtl: 60 })
BurstPut(p) ==
  \E fault \in BOOLEAN :
    /\ p \in DOMAIN issued /\ issued[p].pc = "put"
    /\ fault => faults < BMaxFaults
    /\ faults' = IF fault THEN faults + 1 ELSE faults
    /\ procs' = IF fault THEN procs
                ELSE MapPut(procs, issued[p].ip,
                            [val |-> Plain(NumToString(issued[p].count + 1)),
                             exp |-> NowSec + RateLimitTtl])
    /\ Pass(p, IF fault THEN "put" ELSE "none")
    /\ UNCHANGED <<nowMs, authKV, sessKV, idxKV, nextState, nextSid, grants, cookies,
                   deleted, prev, ticks>>

\* a window passes; the backend drops the counters that have expired
BurstTick ==
  /\ ticks < BMaxTicks
  /\ ticks' = ticks + 1
  /\ nowMs' = JsAdd(nowMs, Ms(RateLimitTtl, 0))
  /\ procs' = Expire(procs, nowMs'.s)
  /\ exch' = [ip \in DOMAIN exch \cap DOMAIN procs' |-> exch[ip]]
  /\ last' = [op |-> "tick"]
  /\ UNCHANGED <<authKV, sessKV, idxKV, nextState, nextSid, grants, cookies, issued,
                 deleted, prev, faults>>

NextBurst ==
  \/ \E p \in BurstProcs : BurstArrive(p) \/ BurstGet(p) \/ BurstPut(p)
  \/ BurstTick

SpecBurst == InitBurst /\ [][NextBurst]_vars

\* --------------------------------------------- SpecLogout: failing logouts
\* Logins, callbacks and page requests over a sound backend; GET /logout over
\* a backend in which any of its calls fail.
LogoutBounds == Bounds(XMaxStates, XMaxGrants, XMaxTicks, 0)
\* the most calls one logout makes: get, refresh, put, delete, delete
LogoutCalls == 5

LogoutUnderFailures ==
  \E sid \in cookies, fail \in SUBSET (1..LogoutCalls) :
  \E resp \in Answers(getSession(World(fail), sid, FailedResp).w, RefreshResponses) :
  \E r \in {logoutRoute(World(fail), sid, resp)} :
    /\ Faulted(r.w) = fail
    /\ r.w.grants <= LogoutBounds.grants
    /\ authKV' = r.w.auth /\ sessKV' = r.w.sess /\ idxKV' = r.w.idx
    /\ grants' = r.w.grants /\ exch' = r.w.exch /\ deleted' = r.w.deleted
    /\ last' = [op |-> "logout", sid |-> sid, status |-> r.status,
                cleared |-> r.cleared, failed |-> FailedCalls(r.w),
                refreshed |-> ProviderCalled(r.w),
                user |-> IF sid \in DOMAIN sessKV
                         THEN sessKV[sid].val.text.userId ELSE "",
                resp |-> resp.ok, idxBefore |-> idxKV]
    /\ UNCHANGED <<nowMs, nextState, nextSid, cookies, issued, prev, faults, ticks,
                   procs>>

NextLogout ==
  \/ Tick(LogoutBounds)
  \/ Login(LogoutBounds)
  \/ Callback(LogoutBounds)
  \/ LogoutUnderFailures

SpecLogout == Init /\ [][NextLogout]_vars

\* ------------------------------------- SpecWait: invocations at their awaits
\* The awaits of a callback, a getSession and a refreshTokens, each an outbound
\* call to the key-value backend or to the provider's token endpoint. An
\* invocation stands at an await until the call is answered; no call is made
\* with a timeout or an AbortSignal, so nothing else ends an await. procs holds
\* the invocations: [op, pc, answer].
WaitOps == {"callback", "getSession", "refreshTokens"}
FirstAwait(op) ==
  CASE op = "callback" -> "cb_get" [] op = "getSession" -> "gs_get" [] OTHER -> "rt_get"
Reads == {"cb_get", "cb_idx", "cr_idx", "gs_get", "rt_get"}
\* how an outbound call can end: with a value, with null (a read), rejected
AnswersTo(pc) == IF pc \in Reads THEN {"ok", "none", "error"} ELSE {"ok", "error"}

\* the await that can follow, given how the awaited call ended
NextAwait(pc, answer) ==
  CASE pc = "cb_get"     -> IF answer = "ok" THEN {"cb_del"} ELSE {"done"}
    [] pc = "cb_del"     -> IF answer = "ok" THEN {"cb_exch"} ELSE {"done"}
    [] pc = "cb_exch"    -> IF answer = "ok" THEN {"cb_idx", "done"} ELSE {"done"}
    [] pc = "cb_idx"     -> IF answer = "ok" THEN {"upd_put"} ELSE {"cr_idx"}
    [] pc = "upd_put"    -> {"done"}
    [] pc = "cr_idx"     -> IF answer = "ok" THEN {"cr_del"} ELSE {"cr_put"}
    [] pc = "cr_del"     -> {"cr_put"}
    [] pc = "cr_put"     -> IF answer = "ok" THEN {"cr_putidx"} ELSE {"done"}
    [] pc = "cr_putidx"  -> {"done"}
    [] pc = "gs_get"     -> IF answer = "ok" THEN {"gs_refresh", "done"} ELSE {"done"}
    [] pc = "gs_refresh" -> IF answer = "ok" THEN {"gs_put"} ELSE {"gs_del"}
    [] pc = "gs_put"     -> IF answer = "ok" THEN {"done"} ELSE {"gs_del"}
    [] pc = "gs_del"     -> {"done"}
    [] pc = "rt_get"     -> IF answer = "ok" THEN {"rt_refresh"} ELSE {"done"}
    [] pc = "rt_refresh" -> IF answer = "ok" THEN {"rt_put"} ELSE {"done"}
    [] OTHER             -> {"done"}

Waiting(q) == procs[q].pc \notin {"idle", "done"}

InitWait ==
  /\ nowMs = Epoch0
  /\ authKV = <<>> /\ sessKV = <<>> /\ idxKV = <<>>
  /\ nextState = 0 /\ nextSid = 0 /\ grants = 0
  /\ cookies = {}
  /\ issued = <<>> /\ exch = <<>> /\ deleted = {}
  /\ last = NoOp /\ prev = NoOp
  /\ faults = 0 /\ ticks = 0
  /\ procs = [q \in Procs |-> [op |-> "idle", pc |-> "idle", answer |-> "pending"]]

WaitStep(p, rec) ==
  /\ procs' = [procs EXCEPT ![p] = rec]
  /\ UNCHANGED <<nowMs, authKV, sessKV, idxKV, nextState, nextSid, grants, cookies,
                 issued, exch, deleted, last, prev, faults, ticks>>

\* an invocation starts and makes its first call
WaitBegin(p) ==
  /\ procs[p].pc = "idle"
  /\ \E op \in WaitOps :
       WaitStep(p, [op |-> op, pc |-> FirstAwait(op), answer |-> "pending"])

\* the backend or the provider answers the pending call
Respond(p) ==
  /\ Waiting(p) /\ procs[p].answer = "pending"
  /\ \E a \in AnswersTo(procs[p].pc) : WaitStep(p, [procs[p] EXCEPT !.answer = a])

\* the awaited promise has settled: the invocation runs on to its next await,
\* or returns
Resume(p) ==
  /\ Waiting(p) /\ procs[p].answer # "pending"
  /\ \E pc \in NextAwait(procs[p].pc, procs[p].answer) :
       WaitStep(p, [procs[p] EXCEPT !.pc = pc, !.answer = "pending"])

NextWait == \E p \in Procs : WaitBegin(p) \/ Respond(p) \/ Resume(p)

\* The runtime runs the continuation of a settled promise; nothing obliges
\* the backend or the provider to answer.
SpecWait == InitWait /\ [][NextWait]_vars /\ \A p \in Procs : WF_vars(Resume(p))

\* ------------------------------------------- SpecConfig: the Worker's bindings
\* Login and callback requests to a Worker deployed with any combination of
\* the SESSIONS_KV binding and the SESSION_ENC_SECRET variable. procs holds the
\* bindings, fixed at deployment.
ConfigBounds == Bounds(CMaxStates, CMaxGrants, 0, 0)

InitConfig ==
  /\ nowMs = Epoch0
  /\ authKV = <<>> /\ sessKV = <<>> /\ idxKV = <<>>
  /\ nextState = 0 /\ nextSid = 0 /\ grants = 0
  /\ cookies = {}
  /\ issued = <<>> /\ exch = <<>> /\ deleted = {}
  /\ last = NoOp /\ prev = NoOp
  /\ faults = 0 /\ ticks = 0
  /\ procs \in Envs

\* GET /auth/login
ConfigLogin ==
  \E w \in {initiateAuthIn(procs, World({}), nextState + 1)} :
    /\ nextState < ConfigBounds.states
    /\ Commit(ConfigBounds, w)
    /\ nextState' = nextState + 1
    /\ issued' = MapPut(issued, nextState + 1, CodeVerifier(nextState + 1))
    /\ last' = [op |-> "login", err |-> w.err]
    /\ UNCHANGED <<nowMs, nextSid, cookies, prev, ticks, procs>>

\* GET /callback
ConfigCallback ==
  \E req \in AllRequests :
  \E resp \in Answers(callbackRouteIn(procs, World({}), req, FailedResp, nextSid + 1).w,
                       Responses) :
  \E r \in {callbackRouteIn(procs, World({}), req, resp, nextSid + 1)} :
    /\ Commit(ConfigBounds, r.w)
    /\ nextSid' = IF r.minted THEN nextSid + 1 ELSE nextSid
    /\ cookies' = IF r.sid # NoSid THEN cookies \cup {r.sid} ELSE cookies
    /\ last' = [op |-> "callback", req |-> req, status |-> r.status, err |-> r.err,
                consumed |-> req.state \in DOMAIN authKV /\ req.state \notin DOMAIN r.w.auth,
                exchanged |-> ProviderCalled(r.w)]
    /\ UNCHANGED <<nowMs, nextState, issued, prev, ticks, procs>>

NextConfig == ConfigLogin \/ ConfigCallback

SpecConfig == InitConfig /\ [][NextConfig]_vars

\* =================================================================== claims
UserOf(sid) == sessKV[sid].val.text.userId
RecordsOf(u) == {s \in DOMAIN sessKV : UserOf(s) = u}

\* C1: a PKCE state entry is single-use. Once an exchange has been attempted
\* for a state (successful or not) its entry is gone, no second exchange is
\* ever made for it, and every later callback presenting it fails with
\* 'Invalid or expired OAuth state'.
C1_StateSingleUse ==
  /\ \A s \in DOMAIN exch : Len(exch[s]) = 1 /\ s \notin DOMAIN authKV
  /\ (last.op = "callback" /\ last.state \in DOMAIN exch /\ ~last.exchanged)
       => last.err = "InvalidState"
\* a consumed state was presented again, after a failed and after a successful exchange
C1_Witness ==
  /\ last.op = "callback" /\ last.state \in DOMAIN exch /\ ~last.exchanged
  /\ last.err = "InvalidState" /\ grants = 1 /\ DOMAIN exch = {1, 2}

\* C2: every token exchange made for state S carries the codeVerifier that
\* initiateAuth stored under S, and a callback whose state has no stored entry
\* makes no exchange.
C2_PkceBinding ==
  /\ \A s \in DOMAIN exch :
       s \in DOMAIN issued /\ \A i \in 1..Len(exch[s]) : exch[s][i] = issued[s]
  /\ (last.op = "callback" /\ last.exchanged) => last.had
\* the second state was exchanged while the first was still stored
C2_Witness == 2 \in DOMAIN exch /\ 1 \in DOMAIN authKV

\* C3: after a successful callback, getSession on the identifier it returned,
\* called at once, returns the id token's sub and the exchanged tokens.
C3_SessionRetrievable ==
  (last.op = "callback" /\ last.status = "redirect_plugin") =>
    \A resp \in RefreshResponses :
      LET g == getSession(World({}), last.sid, resp) IN
        /\ g.found
        /\ g.data.userId = last.tok.sub
        /\ g.data.accessToken = last.tok.access_token
        /\ g.data.refreshToken = last.tok.refresh_token
\* the update-in-place branch, taken on a record that had been deleted
C3_Witness ==
  /\ last.op = "callback" /\ last.status = "redirect_plugin"
  /\ ~last.minted /\ last.sid \in deleted
\* the create branch
C3_WitnessCreate ==
  last.op = "callback" /\ last.status = "redirect_plugin" /\ last.minted

\* two createUserSession calls for one user, the second right after the first
TwoCreates ==
  /\ last.op = "create" /\ last.after.op = "create"
  /\ last.after.user = last.user

\* C5: after createUserSession(id1, u, r1) followed by createUserSession(id2,
\* u, r2): when id2 # id1, getSession(id1) returns null and getUserSessionId(u)
\* returns id2; when id2 = id1 the record is not deleted but overwritten by r2.
C5_SessionReplacement ==
  TwoCreates =>
    IF last.sid # last.after.sid
    THEN /\ \A resp \in RefreshResponses :
              ~getSession(World({}), last.after.sid, resp).found
         /\ getUserSessionId(World({}), last.user).sid = last.sid
    ELSE /\ ~last.deleting
         /\ Stored(last.sid) /\ StoredText(last.sid) = StoredRecord(last.data)
\* the second call replaced a record that was still stored
C5_Witness ==
  TwoCreates /\ last.sid # last.after.sid /\ last.deleting
\* the second call overwrote the record of the same identifier
C5_WitnessSameId ==
  TwoCreates /\ last.sid = last.after.sid /\ Stored(last.sid)

\* a getSession call that read, without a failure, a record whose expiresAt
\* was in the past
ReadExpired ==
  /\ last.op = "dashboard" /\ last.had
  /\ <<"get", "sess">> \notin last.failed
  /\ Truthy(last.before.expiresAt) /\ last.before.expiresAt < NowSec
Refreshed ==
  /\ last.found
  /\ last.data.expiresAt.s > last.before.expiresAt
  /\ Stored(last.sid) /\ StoredText(last.sid) = StoredRecord(last.data)
Purged == ~last.found /\ ~Stored(last.sid)

\* C4 as stated: getSession on a stored session whose expiresAt is in the
\* past either returns a record with a strictly later expiresAt that is now
\* the stored one, or returns null and no record is stored afterwards, also
\* when the write of the refreshed record or the delete fails.
C4_TwoOutcomes == ReadExpired => (Refreshed \/ Purged)

\* C4, amended: the two outcomes hold unless the delete itself failed; then
\* getSession returns null and the stored record is the one it read. A failed
\* write of the refreshed record ends in the purge.
C4_TwoOutcomesUnlessDeleteFails ==
  ReadExpired =>
    \/ Refreshed /\ last.failed = {}
    \/ Purged /\ <<"delete", "sess">> \notin last.failed
    \/ /\ ~last.found /\ <<"delete", "sess">> \in last.failed
       /\ Stored(last.sid) /\ StoredText(last.sid) = last.before
\* the write of the refreshed record failed and the session was purged
C4_Witness ==
  ReadExpired /\ <<"put", "sess">> \in last.failed /\ Purged
\* the delete failed: null is returned and the record is still stored
C4_WitnessDeleteFails ==
  ReadExpired /\ <<"delete", "sess">> \in last.failed /\ ~last.found
  /\ Stored(last.sid)
\* the refresh succeeded
C4_WitnessRefreshed == ReadExpired /\ Refreshed

\* C6: at most one session record carries a given userId, and when the index
\* has an entry for a user who has a record, the index names that record.
C6_SingleActiveSession ==
  \A u \in Users :
    /\ Cardinality(RecordsOf(u)) <= 1
    /\ \A s \in RecordsOf(u) : u \in DOMAIN idxKV => idxKV[u].val.text.str = s

\* C7: once the record of a session identifier has been deleted, getSession on
\* that identifier never returns a record again.
C7_NoResurrection ==
  \A s \in deleted : \A resp \in RefreshResponses :
    ~getSession(World({}), s, resp).found

\* C8: however callbacks presenting the same state interleave, at most one of
\* them gets the stored codeVerifier and makes a token exchange.
C8_AtMostOneExchange == \A st \in DOMAIN exch : Len(exch[st]) <= 1

\* two getSession calls, both of which refreshed the tokens and returned
BothRefreshed ==
  \A q \in Procs :
    /\ procs[q].op = "getSession" /\ procs[q].pc = "done"
    /\ procs[q].out = "ok" /\ procs[q].tok # NoTokens

\* C9: when two getSession calls on the same expired session both refresh
\* (there is no single-flight guard: both use the stored refresh token), both
\* writes land, the stored record is the one written last, and a refresh
\* token the provider returned to the other call is stored nowhere.
C9_LastWriteWins ==
  BothRefreshed =>
    /\ last.op = "write"
    /\ \A q \in Procs : procs[q].kvRes.refreshToken = Session0.refreshToken
    /\ StoredText(procs[last.by].sid) = StoredRecord(procs[last.by].data)
    /\ \A q \in Procs \ {last.by} :
         procs[q].tok.refresh_token # NoTok
           => \A sid \in DOMAIN sessKV :
                sessKV[sid].val.text.refreshToken # procs[q].data.refreshToken
\* both calls refreshed with the same stored refresh token, and the provider
\* rotated the refresh token of the call that wrote first
C9_Witness ==
  /\ BothRefreshed
  /\ \E q \in Procs \ {last.by} :
       /\ procs[q].sid = procs[last.by].sid
       /\ procs[q].kvRes.refreshToken = procs[last.by].kvRes.refreshToken
       /\ procs[q].tok.refresh_token # NoTok
       /\ StoredText(procs[q].sid).refreshToken # procs[q].data.refreshToken

\* the index names a session identifier that has no record
Dangling(u) == u \in DOMAIN idxKV /\ ~Stored(idxKV[u].val.text.str)
OnlyCreates == Quiet /\ \A q \in Procs : procs[q].op = "create"

\* C10: createUserSession's read-index / delete-old / write-record /
\* write-index sequence is not atomic: calls for one user that run one after
\* the other never leave the index naming an identifier without a record; an
\* interleaving of two calls does (C10_Witness).
C10_SequentialCreatesKeepIndex ==
  (OnlyCreates /\ \A q \in Procs : ~procs[q].overlap) => ~Dangling("u1")
\* two interleaved calls have returned and the index names a deleted record
C10_Witness ==
  /\ OnlyCreates /\ Dangling("u1")
  /\ idxKV["u1"].val.text.str \in deleted

\* an entry put wrote that is still stored: neither expired nor overwritten
PutEntry(k) == k \in DOMAIN prev /\ k \in DOMAIN sessKV
Primary(k) == prev[k].secrets[1]
InList(secret, secrets) == \E i \in 1..Len(secrets) : secrets[i] = secret
\* the get just made read an entry that put wrote with a secret
GotPutEntry ==
  /\ last.op = "get" /\ PutEntry(last.key)
  /\ Len(prev[last.key].secrets) > 0

\* C11: after put of a JSON value on an instance with at least one secret,
\* get on an instance whose secret list holds the writer's primary secret, at
\* any position, returns a value equal to the original, as long as the entry
\* has neither expired nor been overwritten.
C11_RoundTrip ==
  (GotPutEntry /\ prev[last.key].value \in JsonValues
     /\ InList(Primary(last.key), last.secrets))
    => /\ ~last.res.threw
       /\ last.res.val = prev[last.key].value
       /\ last.res.null <=> prev[last.key].value = JNull
\* a value written under k1 was read by an instance configured [k2, k1]
C11_Witness ==
  /\ GotPutEntry /\ Primary(last.key) = "k1" /\ last.secrets = <<"k2", "k1">>
  /\ prev[last.key].value = [userId |-> "u1", expiresAt |-> DefaultExpiresIn]
  /\ last.res.val = prev[last.key].value

\* C12: put encrypts under the first secret of the instance's list, never a
\* later one; an instance holding [new, old] still reads what was encrypted
\* under old alone, and what put wrote is unreadable (null) for an instance
\* that does not hold the writer's first secret.
C12_KeyRotation ==
  /\ (last.op = "put" /\ Len(last.secrets) > 0)
       => sessKV[last.key].val.key = last.secrets[1]
  /\ (GotPutEntry /\ prev[last.key].value \in JsonValues
         /\ prev[last.key].secrets = <<"k2">> /\ last.secrets = <<"k1", "k2">>)
       => last.res = Returned(prev[last.key].value)
  /\ (GotPutEntry /\ ~InList(Primary(last.key), last.secrets))
       => last.res = ReturnedNull
\* an instance holding [k1, k2] read a record written by one holding only k2
C12_Witness ==
  /\ GotPutEntry /\ prev[last.key].secrets = <<"k2">> /\ last.secrets = <<"k1", "k2">>
  /\ prev[last.key].value = [str |-> 1] /\ ~last.res.null
\* an instance holding only k2 read what [k1, k2] wrote and got null
C12_WitnessNewOnly ==
  /\ GotPutEntry /\ prev[last.key].secrets = <<"k1", "k2">> /\ last.secrets = <<"k2">>
  /\ prev[last.key].value = [str |-> 1] /\ last.res.null

\* the raw value the get just made found under its key
RawRead == sessKV[last.key].val
NoSecretDecrypts == \A i \in 1..Len(last.secrets) : last.secrets[i] # RawRead.key

\* C13: get never raises; an absent key gives null; a present value that no
\* configured secret decrypts is returned parsed when it is plaintext JSON and
\* gives null otherwise.
C13_SoftFailureChain ==
  last.op = "get" =>
    /\ ~last.res.threw
    /\ ~last.present => last.res = ReturnedNull
    /\ (last.present /\ NoSecretDecrypts) =>
         IF RawRead.key = "plain" /\ RawRead.text \notin {GarbageText, EmptyText}
         THEN last.res.val = RawRead.text /\ (last.res.null <=> RawRead.text = JNull)
         ELSE last.res = ReturnedNull
\* an instance with a secret read plaintext JSON left by another writer
C13_Witness ==
  /\ last.op = "get" /\ last.present /\ Len(last.secrets) > 0
  /\ RawRead = Plain([str |-> 1]) /\ last.res = Returned([str |-> 1])
\* a ciphertext under a secret the instance lacks, and text that is no JSON
C13_WitnessUndecryptable ==
  /\ last.op = "get" /\ last.present /\ Len(last.secrets) > 0
  /\ RawRead.key = "k0" /\ last.res = ReturnedNull
C13_WitnessGarbage ==
  /\ last.op = "get" /\ last.present
  /\ RawRead = Plain(GarbageText) /\ last.res = ReturnedNull
C13_WitnessAbsent ==
  last.op = "get" /\ ~last.present /\ last.res = ReturnedNull

\* no entry of the secret argument is a non-empty string
NoUsableSecret(secret) == \A i \in 1..Len(secret.list) : secret.list[i] = ""
Mandatory(requireSecret) == requireSecret # "false"

\* what holds after a construction and after a put without secrets
ConstructedAsConfigured ==
  /\ last.op = "new" =>
       /\ last.threw <=> (Mandatory(last.requireSecret) /\ NoUsableSecret(last.secret))
       /\ ~last.threw => last.secrets \in procs
  /\ \A secret \in SecretArgs :
       NoUsableSecret(secret) => SessionService(secret).threw
  /\ (last.op = "put" /\ last.secrets = <<>>)
       => sessKV[last.key].val = Plain(Json(prev[last.key].value))

\* C14: with encryption mandatory (the default, and what SessionService
\* passes) and no non-empty secret, construction throws, leaving no instance
\* to read or write with and the namespace untouched; with requireSecret
\* false and no secret it constructs, and put stores the serialized plaintext.
C14_FailFastConstruction ==
  /\ []ConstructedAsConfigured
  /\ [][(last'.op = "new" /\ last'.threw) => (procs' = procs /\ sessKV' = sessKV)]_vars
\* construction with a list of empty strings threw before anything was stored
C14_Witness ==
  /\ last.op = "new" /\ last.secret = ListArg(<<"">>) /\ last.requireSecret = "unset"
  /\ last.threw /\ procs = {} /\ sessKV = <<>>
\* an instance built with requireSecret false and no secret stored plaintext
C14_WitnessPlaintext ==
  /\ last.op = "put" /\ last.secrets = <<>>
  /\ sessKV[last.key].val = Plain([str |-> 1])

\* the calls the method just run made, as <<operation, store, succeeded>>
CallsMade == {<<last.calls[i].op, last.calls[i].ns, last.calls[i].ok>> : i \in 1..Len(last.calls)}
\* the record the method found under its session id, and the one stored now
RecordBefore == last.sessBefore[last.sid].val.text
RecordNow == sessKV[last.sid].val.text
\* a refresh, implicit or manual, that the provider granted and that was written
RefreshSucceeded ==
  /\ last.op \in {"getSession", "refreshTokens"}
  /\ <<"refresh", "provider", TRUE>> \in CallsMade
  /\ <<"put", "sess", TRUE>> \in CallsMade

\* C15: after a successful refresh the stored accessToken is the provider's
\* new access_token, the stored refreshToken is the provider's refresh_token
\* if it returned one and else the previous one, the userId is unchanged and
\* expiresAt is now + expires_in, with 3600 seconds when expires_in is absent.
C15_RefreshPolicy ==
  RefreshSucceeded =>
    /\ RecordNow.accessToken = AT(grants)
    /\ RecordNow.refreshToken = IF last.resp.rt THEN RT(grants) ELSE RecordBefore.refreshToken
    /\ RecordNow.userId = RecordBefore.userId
    /\ RecordNow.expiresAt =
         NowSec + (IF last.resp.ei = Undefined THEN DefaultExpiresIn ELSE last.resp.ei)
\* the same with expires_in 0 taken as absent, as the code's `||` takes it
C15_RefreshPolicyFalsyExpiresIn ==
  RefreshSucceeded =>
    /\ RecordNow.accessToken = AT(grants)
    /\ RecordNow.refreshToken = IF last.resp.rt THEN RT(grants) ELSE RecordBefore.refreshToken
    /\ RecordNow.userId = RecordBefore.userId
    /\ RecordNow.expiresAt =
         NowSec + (IF last.resp.ei \in {Undefined, 0} THEN DefaultExpiresIn ELSE last.resp.ei)
    /\ last.found /\ StoredRecord(last.data) = RecordNow
C15_Witness ==
  /\ RefreshSucceeded /\ last.op = "refreshTokens" /\ ~last.resp.rt
  /\ last.resp.ei = Undefined /\ RecordNow.expiresAt = NowSec + DefaultExpiresIn

\* C16: updateSession raises exactly when the backend put fails, so a normal
\* return means the record was written (with the 30-day TTL); deleteSession
\* and deleteUserSession return normally also when the backend delete fails.
C16_StorageErrorPolicy ==
  /\ last.op = "updateSession" =>
       /\ last.raised <=> <<"put", "sess", FALSE>> \in CallsMade
       /\ ~last.raised =>
            /\ last.sid \in DOMAIN sessKV /\ RecordNow = StoredRecord(last.data)
            /\ sessKV[last.sid].exp = NowSec + SessionTtl
       /\ last.raised => sessKV = last.sessBefore
  /\ last.op \in {"deleteSession", "deleteUserSession"} =>
       /\ ~last.raised
       /\ (\E ns \in {"sess", "idx"} : <<"delete", ns, FALSE>> \in CallsMade)
            => sessKV = last.sessBefore /\ idxKV = last.idxBefore
\* the backend delete failed, deleteSession returned normally, the record stays
C16_Witness ==
  /\ last.op = "deleteSession" /\ <<"delete", "sess", FALSE>> \in CallsMade
  /\ ~last.raised /\ last.sid \in DOMAIN sessKV
C16_WitnessIndex ==
  /\ last.op = "deleteUserSession" /\ <<"delete", "idx", FALSE>> \in CallsMade
  /\ ~last.raised /\ last.user \in DOMAIN idxKV
\* the backend put failed and updateSession raised
C16_WitnessUpdate ==
  last.op = "updateSession" /\ last.raised /\ last.sid \in DOMAIN sessKV

\* the method's first backend call was a read that failed
FirstReadFailed ==
  /\ last.op \in {"getSession", "getUserSessionId", "refreshTokens"}
  /\ Len(last.calls) > 0 /\ last.calls[1].op = "get" /\ ~last.calls[1].ok

\* C17: when the backend read fails, getSession, getUserSessionId and
\* refreshTokens return null and do not raise.
C17_ReadsFailOpen == FirstReadFailed => (~last.raised /\ ~last.found)
\* the same for getSession and getUserSessionId alone
C17_GuardedReadsFailOpen ==
  (FirstReadFailed /\ last.op # "refreshTokens") => (~last.raised /\ ~last.found)
C17_WitnessRaised ==
  FirstReadFailed /\ last.op = "refreshTokens" /\ last.raised

DeleteCalled == \E ns \in {"sess", "idx"}, ok \in BOOLEAN : <<"delete", ns, ok>> \in CallsMade
ProviderRefused == <<"refresh", "provider", FALSE>> \in CallsMade
WriteFailed == <<"put", "sess", FALSE>> \in CallsMade

\* C18: refreshTokens never deletes. When the provider refuses the refresh or
\* the write of the refreshed record fails it returns null and the session
\* record and the index are as they were; when there is no record it returns
\* null without calling the provider.
C18_RefreshTokensNeverDeletes ==
  last.op = "refreshTokens" =>
    /\ ~DeleteCalled
    /\ (ProviderRefused \/ WriteFailed) =>
         /\ ~last.raised /\ ~last.found
         /\ sessKV = last.sessBefore /\ idxKV = last.idxBefore
    /\ (last.sid \notin DOMAIN last.sessBefore /\ ~FirstReadFailed) =>
         /\ ~last.raised /\ ~last.found
         /\ last.calls = <<[op |-> "get", ns |-> "sess", ok |-> TRUE]>>
\* the provider refused and the record refreshTokens read is still stored
C18_Witness ==
  /\ last.op = "refreshTokens" /\ ProviderRefused /\ ~last.found
  /\ last.sid \in DOMAIN sessKV /\ "u1" \in DOMAIN idxKV
C18_WitnessWriteFailed ==
  /\ last.op = "refreshTokens" /\ WriteFailed /\ ~last.found
  /\ last.sid \in DOMAIN sessKV
C18_WitnessAbsent ==
  /\ last.op = "refreshTokens" /\ last.sid \notin DOMAIN last.sessBefore
  /\ ~FirstReadFailed /\ ~last.found

\* C19: when the provider answers the refresh of an expired record with a
\* non-2xx response, getSession calls the delete of the session record (which
\* is gone unless the backend failed that delete), returns null, and leaves
\* the user's index entry as it was, still naming the session.
C19_RefreshFailureDeletesRecord ==
  (last.op = "getSession" /\ ProviderRefused) =>
    /\ \E ok \in BOOLEAN : <<"delete", "sess", ok>> \in CallsMade
    /\ <<"delete", "sess", TRUE>> \in CallsMade => last.sid \notin DOMAIN sessKV
    /\ ~last.found /\ ~last.raised
    /\ idxKV = last.idxBefore
\* the record is gone and the index still names it
C19_Witness ==
  /\ last.op = "getSession" /\ ProviderRefused
  /\ RecordBefore.expiresAt < NowSec
  /\ last.sid \notin DOMAIN sessKV
  /\ "u1" \in DOMAIN idxKV /\ idxKV["u1"].val.text.str = last.sid

\* a request with an error parameter, or without a code, met the callback
\* checks: any GET /callback, and a page request carrying a code or an error
MetCallbackChecks ==
  \/ last.op = "callback"
  \/ last.op = "plugin" /\ (last.req.code \/ last.req.error)
Rejected == MetCallbackChecks /\ (last.req.error \/ ~last.req.code)

\* C20: a callback request with an error parameter ends with 400 and one
\* without a code with a redirect to /auth/login; neither reads or deletes a
\* state entry, exchanges a token, writes a session or index entry or sets a
\* cookie.
C20_ValidationFirst ==
  Rejected =>
    /\ last.status = IF last.req.error THEN "400" ELSE "redirect_login"
    /\ last.calls = <<>>
    /\ authKV = last.authBefore /\ sessKV = last.sessBefore /\ idxKV = last.idxBefore
    /\ exch = last.exchBefore
    /\ cookies = last.cookiesBefore /\ last.sid = NoSid
\* a request with an error parameter and the code and state of a login in
\* progress was turned away, the state entry still stored
C20_Witness ==
  /\ last.op = "callback" /\ last.req.error /\ last.req.code /\ last.req.hasState
  /\ last.req.state \in DOMAIN authKV /\ last.status = "400"
C20_WitnessNoCode ==
  /\ last.op = "callback" /\ ~last.req.error /\ ~last.req.code /\ last.req.hasState
  /\ last.req.state \in DOMAIN authKV /\ last.status = "redirect_login"
C20_WitnessPlugin ==
  /\ last.op = "plugin" /\ last.req.error /\ last.cookie # NoSid
  /\ last.status = "400"

\* a callback with a code and no error whose state is missing from the
\* request, or names no stored entry (never issued, expired or consumed)
StateUnusable ==
  /\ last.op = "callback" /\ last.req.code /\ ~last.req.error
  /\ (~last.req.hasState \/ last.req.state \notin DOMAIN last.authBefore)

\* C21: a callback whose state is missing, unknown, expired or already
\* consumed ends in a redirect to the login route, not in an error status.
C21_StateErrorStartsOver == StateUnusable => last.status = "redirect_login"
\* what the route does instead: the error page with status 500, nothing
\* exchanged or written
C21_StateErrorIs500 ==
  StateUnusable =>
    /\ last.status = "500"
    /\ \A i \in 1..Len(last.calls) : last.calls[i].op = "get"
    /\ sessKV = last.sessBefore /\ idxKV = last.idxBefore /\ cookies = last.cookiesBefore
C21_WitnessConsumed ==
  /\ StateUnusable /\ last.req.hasState /\ last.req.state \in DOMAIN exch
  /\ last.status = "500"

\* the step is a callback that installed a session for the user `sub`
Installed(sub) ==
  /\ last'.op = "callback" /\ last'.status = "redirect_plugin"
  /\ last'.tok.sub = sub
\* the record the callback leaves under the id in its cookie
InstalledRecord(sub) ==
  /\ last'.sid \in DOMAIN sessKV'
  /\ sessKV'[last'.sid].val.text = Json(StoredRecord(CallbackData(sub, last'.tok)))
  /\ sessKV'[last'.sid].val.text.accessToken = last'.tok.access_token
  /\ sessKV'[last'.sid].val.text.refreshToken = last'.tok.refresh_token
  /\ sub \in DOMAIN idxKV' /\ idxKV'[sub].val.text.str = last'.sid

\* C22: when the index names a session of the user, the callback overwrites
\* that session's record with the new tokens, draws no new id and puts that
\* id in the cookie; otherwise it draws a new id and writes the record and
\* the index entry. Either way the index names the cookie's id afterwards.
C22_InstallSession ==
  [][\A sub \in Users : Installed(sub) =>
       /\ InstalledRecord(sub)
       /\ last'.sid \in cookies'
       /\ IF sub \in DOMAIN idxKV
          THEN /\ last'.sid = idxKV[sub].val.text.str
               /\ ~last'.minted /\ nextSid' = nextSid
               /\ idxKV' = idxKV
          ELSE /\ last'.minted /\ nextSid' = nextSid + 1
               /\ last'.sid = nextSid'
               /\ last'.sid \notin DOMAIN sessKV /\ last'.sid \notin cookies
     ]_vars
\* a second login of a user updated the session the index named
C22_Witness ==
  /\ last.op = "callback" /\ last.status = "redirect_plugin" /\ ~last.minted
  /\ last.tok.access_token = AT(2)
  /\ idxKV[last.tok.sub].val.text.str = last.sid
  /\ sessKV[last.sid].val.text.accessToken = AT(2)
C22_WitnessMinted ==
  /\ last.op = "callback" /\ last.status = "redirect_plugin" /\ last.minted
  /\ idxKV[last.tok.sub].val.text.str = last.sid

Pieces(text) == {text[i] : i \in 1..Len(text)}
ExchangeRefused == last.op = "callback" /\ last.err = "ExchangeFailed"

\* C24: after a token exchange the provider refused, the text sent to the
\* browser does not contain the body of the provider's response.
C24_NoUpstreamBody ==
  ExchangeRefused => "errorText" \notin Pieces(ResponseText(last.status, last.err))
\* what is sent: status 500 with the message of the exception, body included
C24_UpstreamBodyEchoed ==
  ExchangeRefused =>
    /\ last.status = "500"
    /\ "errorText" \in Pieces(ResponseText(last.status, last.err))

ConfigurationError(err) == err \in {"KvRequired", "SessionsKvRequired", "SecretRequired"}

\* C25: a missing binding (SESSIONS_KV, SESSION_ENC_SECRET) is never met by a
\* callback that has already consumed its state entry or exchanged the code.
C25_ConfigErrorBeforeEffects ==
  (last.op = "callback" /\ ConfigurationError(last.err)) =>
    (~last.consumed /\ ~last.exchanged)
\* what happens: with SESSIONS_KV bound and no secret the callback consumes the
\* state, exchanges the code and then answers 500; without SESSIONS_KV it
\* answers 500 before any effect
C25_SecretMissedAfterExchange ==
  (last.op = "callback" /\ ConfigurationError(last.err)) =>
    /\ last.status = "500"
    /\ ~(procs.kv /\ procs.secret)
    /\ procs.kv => (last.err = "SecretRequired" /\ last.consumed /\ last.exchanged)
    /\ ~procs.kv => (last.err = "KvRequired" /\ ~last.consumed /\ ~last.exchanged)

\* C26: the index entry of a user expires at the same time as the session
\* record it names, also after the record's expiration has been renewed.
C26_IndexExpiresWithRecord ==
  \A u \in DOMAIN idxKV :
    idxKV[u].val.text.str \in DOMAIN sessKV =>
      idxKV[u].exp = sessKV[idxKV[u].val.text.str].exp
\* the part that holds: a record written by a step expires 30 days after it
C26_RecordTtlOnWrite ==
  [][\A sid \in DOMAIN sessKV' :
       (sid \notin DOMAIN sessKV \/ sessKV'[sid] # sessKV[sid]) =>
         sessKV'[sid].exp = NowSec + SessionTtl]_vars
\* a renewed record outlives the index entry that names it
C26_WitnessRenewed ==
  \E u \in DOMAIN idxKV :
    /\ idxKV[u].val.text.str \in DOMAIN sessKV
    /\ idxKV[u].exp < sessKV[idxKV[u].val.text.str].exp

\* updateSession(sid, data) returned normally and the next call, getSession(sid),
\* returned the record without refreshing it
WrittenThenRead ==
  /\ last.op = "updateSession" /\ ~last.raised
  /\ last'.op = "getSession" /\ last'.sid = last.sid /\ last'.found
  /\ \A i \in 1..Len(last'.calls) : last'.calls[i].ns # "provider"

\* C27: the expiresAt (epoch milliseconds) passed to updateSession is the
\* expiresAt a following getSession without refresh returns.
C27_ExpiresAtRoundTrip ==
  [][WrittenThenRead => last'.data.expiresAt = last.data.expiresAt]_vars
\* what is returned: the value cut to whole seconds
C27_ExpiresAtToTheSecond ==
  [][WrittenThenRead =>
       /\ last'.data.expiresAt = Ms(last.data.expiresAt.s, 0)
       /\ last.data.expiresAt.ms # 0]_vars

Encrypted(store) == \A k \in DOMAIN store : store[k].val.key = Secret

\* C28: with a secret configured, every value in the key-value backend (PKCE
\* state entries, session records, index entries, rate limit counters) is
\* stored encrypted, never as plaintext.
C28_EverythingEncrypted ==
  Encrypted(authKV) /\ Encrypted(sessKV) /\ Encrypted(idxKV) /\ Encrypted(procs)
\* what holds: all but the rate limit counters, and those are all plaintext
C28_AllButCounters ==
  /\ Encrypted(authKV) /\ Encrypted(sessKV) /\ Encrypted(idxKV)
  /\ \A ip \in DOMAIN procs : procs[ip].val.key = "plain"
C28_WitnessLimited == last.op = "login" /\ last.status = "429"

\* C29: a request to /logout with a signed session cookie ends by clearing the
\* cookie and redirecting to `/`, whichever of its backend calls fail.
C29_LogoutNeverBlocked ==
  last.op = "logout" => (last.status = "redirect_home" /\ last.cleared)
\* a logout both of whose deletes failed
C29_Witness ==
  /\ last.op = "logout"
  /\ {<<"delete", "idx">>, <<"delete", "sess">>} \subseteq last.failed
\* a logout whose read failed, and one whose write after a refresh failed
C29_WitnessRead == last.op = "logout" /\ <<"get", "sess">> \in last.failed
C29_WitnessWrite == last.op = "logout" /\ <<"put", "sess">> \in last.failed

\* C30: every callback, getSession and refreshTokens invocation eventually
\* returns, also when the provider or the key-value backend never answers.
C30_EveryInvocationReturns ==
  \A p \in Procs : Waiting(p) ~> (procs[p].pc = "done")
\* what holds: an invocation returns if each of its calls is answered
C30_ReturnsIfAnswered ==
  (\A p \in Procs : WF_vars(Respond(p))) =>
    (\A p \in Procs : Waiting(p) ~> (procs[p].pc = "done"))

\* getSession read a record: its first call, the read, succeeded and found one
ReadRecord ==
  /\ last.op = "getSession" /\ last.sid \in DOMAIN last.sessBefore
  /\ Len(last.calls) > 0 /\ last.calls[1].ok
RefreshAttempted == \E ok \in BOOLEAN : <<"refresh", "provider", ok>> \in CallsMade
\* the stored expiresAt is a non-zero number of seconds before the current one
Overdue ==
  /\ RecordBefore.expiresAt \notin {JsonNull, 0}
  /\ RecordBefore.expiresAt < NowSec

\* C31: getSession attempts a refresh exactly when the stored expiresAt is
\* present, non-zero and less than the current epoch second; otherwise it makes
\* no call but the read, leaves the store alone and returns the stored record
\* with expiresAt times 1000.
C31_RefreshExactlyWhenOverdue ==
  ReadRecord =>
    /\ RefreshAttempted <=> Overdue
    /\ ~Overdue =>
         /\ Len(last.calls) = 1 /\ sessKV = last.sessBefore /\ idxKV = last.idxBefore
         /\ last.found /\ ~last.raised
         /\ last.data = [userId |-> RecordBefore.userId,
                         accessToken |-> RecordBefore.accessToken,
                         refreshToken |-> RecordBefore.refreshToken,
                         expiresAt |-> IF RecordBefore.expiresAt = JsonNull THEN Ms(0, 0)
                                       ELSE Ms(RecordBefore.expiresAt, 0)]
\* a record expiring in the current second was returned as it is
C31_Witness ==
  ReadRecord /\ RecordBefore.expiresAt = NowSec /\ last.found /\ ~RefreshAttempted
C31_WitnessOverdue == ReadRecord /\ Overdue /\ RefreshAttempted
C31_WitnessAbsent ==
  ReadRecord /\ RecordBefore.expiresAt \in {JsonNull, 0} /\ last.found

PutFailed == \E ns \in {"sess", "idx"} : <<"put", ns>> \in last'.failed

\* C32: a callback that ends in an error issues no session cookie; one that
\* issues a cookie has written the session record (and, for a new session,
\* the index entry) without a failed write.
C32_CookieAfterWrites ==
  [][last'.op = "callback" =>
       IF last'.err # "none"
       THEN cookies' = cookies /\ last'.sid = NoSid
       ELSE /\ cookies' = cookies \cup {last'.sid}
            /\ ~PutFailed
            /\ last'.sid \in DOMAIN sessKV'
            /\ sessKV'[last'.sid].val.text.accessToken = last'.tok.access_token
            /\ last'.minted =>
                 /\ last'.tok.sub \in DOMAIN idxKV'
                 /\ idxKV'[last'.tok.sub].val.text.str = last'.sid]_vars
\* callbacks that failed at a store write, and at the id token
C32_Witness ==
  /\ last.op = "callback" /\ last.err = "StorageError"
  /\ \E ns \in {"sess", "idx"} : <<"put", ns>> \in last.failed
C32_WitnessIdToken == last.op = "callback" /\ last.err = "BadIdToken"
C32_WitnessIssued == last.op = "callback" /\ last.err = "none" /\ last.minted

\* two getSession calls on the same session have both returned, having read
\* the same stored record
BothRead ==
  /\ \A q \in Procs : procs[q].op = "getSession" /\ procs[q].pc = "done"
  /\ \A q, r \in Procs : procs[q].sid = procs[r].sid /\ procs[q].kvRes = procs[r].kvRes
  /\ \A q \in Procs : procs[q].kvRes = StoredRecord(Session0)
ReturnedRefreshed(q) == procs[q].out = "ok" /\ procs[q].tok # NoTokens

\* C33: when concurrent getSession calls on the same expired session have
\* finished and one of them returned a refreshed record, the session record is
\* still in the store.
C33_RefreshedRecordSurvives ==
  (BothRead /\ \E q \in Procs : ReturnedRefreshed(q)) =>
    \A q \in Procs : procs[q].sid \in DOMAIN sessKV
\* one call has refreshed and returned; the other, which read the same refresh
\* token, has yet to present it to the provider
C33_ReusedTokenPending ==
  \E q, r \in Procs :
    /\ procs[q].op = "getSession" /\ procs[q].pc = "done" /\ ReturnedRefreshed(q)
    /\ procs[r].op = "getSession" /\ procs[r].pc = "gs_refresh"
    /\ procs[r].sid = procs[q].sid
    /\ procs[r].kvRes.refreshToken = procs[q].kvRes.refreshToken
\* and the end of it: the refreshed record was deleted by the other call
C33_RefreshedRecordDeleted ==
  /\ BothRead /\ \E q \in Procs : ReturnedRefreshed(q)
  /\ \E q \in Procs : procs[q].out = "null" /\ procs[q].sid \in deleted
  /\ \A q \in Procs : procs[q].sid \notin DOMAIN sessKV

\* both callbacks have returned a session for user u
BothLoggedIn(u) ==
  \A q \in Procs :
    /\ procs[q].op = "callback" /\ procs[q].pc = "done" /\ procs[q].out = "ok"
    /\ procs[q].user = u

\* C34: once two concurrent successful callbacks of a user who had no session
\* have finished, exactly one session record carries the userId and the
\* index names it.
C34_OneSessionAfterBoth ==
  \A u \in Users :
    BothLoggedIn(u) =>
      /\ Cardinality(RecordsOf(u)) = 1
      /\ u \in DOMAIN idxKV /\ idxKV[u].val.text.str \in RecordsOf(u)
\* what holds when the second callback starts after the first has returned
C34_OneAfterTheOther ==
  \A u \in Users :
    (BothLoggedIn(u) /\ \A q \in Procs : ~procs[q].overlap) =>
      /\ Cardinality(RecordsOf(u)) = 1
      /\ u \in DOMAIN idxKV /\ idxKV[u].val.text.str \in RecordsOf(u)
\* two records of the user are left, one of them unknown to the index
C34_WitnessOrphan ==
  \E u \in Users :
    /\ BothLoggedIn(u) /\ Cardinality(RecordsOf(u)) = 2
    /\ \E sid \in RecordsOf(u) : idxKV[u].val.text.str # sid

CreateRaised == last.op = "createUserSession" /\ last.raised

\* C35: when createUserSession raises because a backend write failed, the
\* session records and the index are as they were before the call: the
\* previous session is kept and nothing is stored under the new identifier.
C35_CreateAllOrNothing ==
  CreateRaised => (sessKV = last.sessBefore /\ idxKV = last.idxBefore)
\* what a raising call leaves: the index as it was, and the records as they
\* were except for the cleanup already made and the record already written
C35_CreatePartial ==
  CreateRaised =>
    /\ idxKV = last.idxBefore
    /\ \A sid \in DOMAIN sessKV \ {last.sid} :
         sid \in DOMAIN last.sessBefore /\ sessKV[sid] = last.sessBefore[sid]
    /\ \A sid \in DOMAIN last.sessBefore \ DOMAIN sessKV :
         sid # last.sid /\ <<"delete", "sess", TRUE>> \in CallsMade
\* the previous session was deleted and the new one was not written
C35_WitnessLost ==
  /\ CreateRaised /\ WriteFailed
  /\ DOMAIN last.sessBefore # {} /\ DOMAIN sessKV = {}
\* the new record was written and the index still names the deleted one
C35_WitnessHalf ==
  /\ CreateRaised /\ <<"put", "idx", FALSE>> \in CallsMade
  /\ last.sid \in DOMAIN sessKV /\ last.sid \notin DOMAIN last.sessBefore
  /\ last.user \in DOMAIN idxKV
  /\ idxKV[last.user].val.text.str \notin DOMAIN sessKV

\* a logout for a cookie whose session was stored, none of whose backend calls
\* failed
CleanLogout == last.op = "logout" /\ last.user # "" /\ last.failed = {}
\* the logout's own getSession tried a refresh and the provider refused it
RefreshRefused == last.refreshed /\ ~last.resp

\* C36: after a /logout for a cookie naming session s of user u, with no
\* backend failure, neither the record of s nor the index entry of u is stored,
\* also when s had expired and its refresh failed during the logout.
C36_LogoutRemovesBoth ==
  CleanLogout => (last.sid \notin DOMAIN sessKV /\ last.user \notin DOMAIN idxKV)
\* what holds: the record is removed, and the index entry too unless the
\* refresh was refused
C36_LogoutRemovesRecord ==
  CleanLogout =>
    /\ last.sid \notin DOMAIN sessKV
    /\ ~RefreshRefused => last.user \notin DOMAIN idxKV
\* C36, second part: the index entry of u is removed only when it names s
C36_IndexRemovedOnlyIfNamed ==
  (CleanLogout /\ last.user \in DOMAIN last.idxBefore \ DOMAIN idxKV)
    => last.idxBefore[last.user].val.text.str = last.sid
\* the index entry outlives a logout whose refresh was refused
C36_WitnessIndexLeft ==
  CleanLogout /\ RefreshRefused /\ last.user \in DOMAIN idxKV
C36_WitnessRemoved ==
  CleanLogout /\ last.user \in DOMAIN last.idxBefore \ DOMAIN idxKV

\* a request to /callback/plugin with a code and a state and without a session
\* cookie, whose OAuth callback succeeded: a session was installed
FirstPluginLogin ==
  /\ last.op = "plugin" /\ last.req.code /\ ~last.req.error /\ last.req.hasState
  /\ last.cookie = NoSid /\ last.sid # NoSid

\* C37: a request to /callback/plugin with a valid code and state and no
\* session cookie, whose OAuth callback succeeds, is answered with the plugin
\* page for the session created in that request, not with a redirect to
\* /auth/login.
C37_PluginPageAfterCallback == FirstPluginLogin => last.status = "page"
\* what the request gets: the session stored, its cookie in the response, and
\* a redirect to /auth/login
C37_PluginRedirectsAfterCallback ==
  FirstPluginLogin =>
    /\ last.status = "redirect_login"
    /\ last.sid \in DOMAIN sessKV /\ last.sid \in cookies
C37_WitnessFirstLogin == FirstPluginLogin /\ last.sid \notin DOMAIN last.sessBefore

\* C38: while the counter of a client address has not expired, at most 10 of
\* its requests to /auth/* pass the middleware, however its requests
\* interleave, no backend call having failed.
C38_AtMostTenPass ==
  faults = 0 => \A ip \in ClientIPs : Passed(ip) <= RateLimitMax
\* what holds: the limit, for requests that arrive one after the other
C38_AtMostTenInTurn ==
  (faults = 0 /\ ~prev.overlap) => \A ip \in ClientIPs : Passed(ip) <= RateLimitMax
\* C38, last part: a request whose counter read or write failed is let through
C38_FailOpen ==
  (last.op = "request" /\ last.fault # "none") => last.status = "pass"
\* an eleventh request passed: two requests read the same count
C38_WitnessEleventh ==
  faults = 0 /\ \E ip \in ClientIPs : Passed(ip) = RateLimitMax + 1
C38_WitnessLimited == last.op = "request" /\ last.status = "429"
C38_WitnessFailedOpen ==
  last.op = "request" /\ last.fault = "put" /\ last.status = "pass"

====
